---- MODULE Spec2Model ----
(***************************************************************************)
(* TrendRadar: aggregation of the day's snapshot files into per-title      *)
(* history records (modules/data_processor.py), detection of new titles,   *)
(* and keyword-group matching / counting.                                  *)
(*                                                                         *)
(* Representation.  A Python dict is a TLA+ function whose DOMAIN is the   *)
(* set of keys; the empty dict is EmptyDict.  Iteration over a dict whose  *)
(* iterations touch distinct keys is written as a function constructor.   *)
(* A title is a sequence of one-character strings, so that lower() and the *)
(* substring test `in` are computed.  A snapshot label (the file stem,     *)
(* compared as a string by sorted()) is a natural number.                  *)
(***************************************************************************)
EXTENDS Integers, Sequences, FiniteSets, TLC

VARIABLES
    files,          \* the day's txt directory: sequence of [label, data], sorted by label
    pc,             \* position of the run: "idle", "crawled", "reading"
    idx,            \* read_all_today_titles: number of files merged so far
    platform,       \* current_platform_ids: NoFilter (None) or Only(ids)
    all_results,    \* read_all_today_titles: source_id -> title -> [ranks, url, mobileUrl]
    title_info,     \* read_all_today_titles: source_id -> title -> TitleRecord
    new_titles,     \* result of detect_latest_new_titles
    word_groups,    \* load_frequency_words: sequence of [required, normal, group_key]
    filter_words,   \* load_frequency_words: sequence of filter terms
    title,          \* matches_word_groups: the title of the last call
    matched,        \* matches_word_groups: the result of the last call
    mode,           \* count_word_frequency: the mode of the last call
    stats,          \* count_word_frequency: the list of Stat returned
    total_titles,   \* count_word_frequency: the number of titles processed
    rule_file,      \* load_frequency_words: the lines of the rule file
    weighed,        \* calculate_news_weight: the calls made, each with its result
    report_data,    \* split_content_into_batches: the report to pack
    format_type,    \* split_content_into_batches: "wework" or "telegram"
    update_info,    \* split_content_into_batches: NoUpdate (None) or the two versions
    max_bytes,      \* split_content_into_batches: the byte budget of a batch
    batches,        \* split_content_into_batches: the list of batches returned
    decisions,      \* split_content_into_batches: the size tests made, each with its outcome
    crawl,          \* save_titles_to_file: [results, id_to_name, failed_ids] of the crawl
    file_text,      \* the snapshot file written: the sequence of its lines
    parsed,         \* parse_file_titles: [titles_by_id, id_to_name] read from the file
    push_conf,      \* CONFIG: SILENT_PUSH and the channels that are configured
    clock,          \* get_beijing_time(): [day, time]
    push_files,     \* output/.push_records: day -> content of push_record_<day>.json
    push_calls      \* the calls of send_to_webhooks made: [day, time, sent, results]

aggVars == <<files, pc, idx, platform, all_results, title_info, new_titles>>

configVars == <<word_groups, filter_words>>

matchVars == <<title, matched>>

countVars == <<mode, stats, total_titles>>

loadVars == <<rule_file>>

weightVars == <<weighed>>

packVars == <<report_data, format_type, update_info, max_bytes, batches, decisions>>

fileVars == <<crawl, file_text, parsed>>

pushVars == <<push_conf, clock, push_files, push_calls>>

vars == <<aggVars, configVars, matchVars, countVars, loadVars, weightVars, packVars, fileVars, pushVars>>

----------------------------------------------------------------------------
(* Bounds of the model *)

MaxFiles == 3

\* the files of a day whose titles are counted
MaxCountFiles == 2

\* the length of a title given to the matcher
MaxTitleLen == 3

Sources == {"s1", "s2"}

\* the titles the crawled snapshots are made of, in the order in which a
\* dict of titles is iterated
AggTitleSeq == << <<"a", "I", "c">>, <<"g", "x">> >>

AggTitles == {AggTitleSeq[i] : i \in DOMAIN AggTitleSeq}

\* the order in which a dict of sources is iterated
SourceSeq == <<"s1", "s2">>

\* current_platform_ids: None, or a list of source ids
NoFilter == [given |-> FALSE, ids |-> {}]

Only(ids) == [given |-> TRUE, ids |-> ids]

PlatformChoices == {NoFilter, Only({"s1"}), Only({})}

----------------------------------------------------------------------------
(* Generic helpers *)

EmptyDict == [k \in {} |-> k]

Range(s) == {s[i] : i \in DOMAIN s}

Min(S) == CHOOSE x \in S : \A y \in S : x <= y

Max(S) == CHOOSE x \in S : \A y \in S : x >= y

\* dict.get(key, default)
Get(d, k, default) == IF k \in DOMAIN d THEN d[k] ELSE default

\* d[k] = v
Put(d, k, v) == [x \in DOMAIN d \cup {k} |-> IF x = k THEN v ELSE d[x]]

----------------------------------------------------------------------------
(* The snapshots a crawl can write: per source a ranking list of distinct  *)
(* titles, the rank of a title being its position in the list.  The entry  *)
(* is what parse_file_titles returns for the line "rank. title [URL:url]". *)
(* The first source publishes a list of any length, the others one line.   *)

RankLists == {l \in UNION {[1..n -> AggTitles] : n \in 1..Cardinality(AggTitles)} :
                 \A i, j \in DOMAIN l : i /= j => l[i] /= l[j]}

UrlOf(rank) == IF rank = 1 THEN "u" ELSE ""

EntryOf(l, t) ==
    LET rank == CHOOSE i \in DOMAIN l : l[i] = t
    IN  [ranks |-> <<rank>>, url |-> UrlOf(rank), mobileUrl |-> ""]

TitleDataOf(l) == [t \in Range(l) |-> EntryOf(l, t)]

ListsOf(s) == IF s = "s1" THEN RankLists ELSE {l \in RankLists : Len(l) = 1}

Snapshots == UNION {{[s \in S |-> TitleDataOf(f[s])] :
                        f \in {g \in [S -> RankLists] : \A s \in S : g[s] \in ListsOf(s)}} :
                       S \in SUBSET Sources}

----------------------------------------------------------------------------
(* process_source_data *)

\* a merge that puts a rank not yet present in front of the ranks
MergeRanks_Front(existing, ranks) ==
    SelectSeq(ranks, LAMBDA rank : rank \notin Range(existing)) \o existing

\* merged_ranks: existing_ranks.copy(), then append every rank not yet present
RECURSIVE MergeRanks(_, _)
MergeRanks(existing, ranks) ==
    IF ranks = <<>> THEN existing
    ELSE LET rank == Head(ranks)
         IN  MergeRanks(IF rank \in Range(existing) THEN existing
                        ELSE Append(existing, rank),
                        Tail(ranks))

\* Python's `a or b` on strings
StrOr(a, b) == IF a /= "" THEN a ELSE b

NewRecord(data, time_info) ==
    [first_time |-> time_info,
     last_time  |-> time_info,
     count      |-> 1,
     ranks      |-> data.ranks,
     url        |-> data.url,
     mobileUrl  |-> data.mobileUrl]

MergedResult(existing_data, data) ==
    [ranks     |-> MergeRanks(existing_data.ranks, data.ranks),
     url       |-> StrOr(existing_data.url, data.url),
     mobileUrl |-> StrOr(existing_data.mobileUrl, data.mobileUrl)]

\* a merge that forgets to count the occurrence
MergedRecord_NoCount(info, existing_data, data, time_info) ==
    [first_time |-> info.first_time,
     last_time  |-> time_info,
     count      |-> info.count,
     ranks      |-> MergeRanks(existing_data.ranks, data.ranks),
     url        |-> StrOr(info.url, data.url),
     mobileUrl  |-> StrOr(info.mobileUrl, data.mobileUrl)]

\* a merge that is idempotent: a snapshot label already recorded is not counted again
MergedRecord_Idempotent(info, existing_data, data, time_info) ==
    [first_time |-> info.first_time,
     last_time  |-> time_info,
     count      |-> IF info.last_time = time_info THEN info.count ELSE info.count + 1,
     ranks      |-> MergeRanks(existing_data.ranks, data.ranks),
     url        |-> StrOr(info.url, data.url),
     mobileUrl  |-> StrOr(info.mobileUrl, data.mobileUrl)]

\* a merge that keeps the ranks of the incoming snapshot only
MergedRecord_LastRanks(info, existing_data, data, time_info) ==
    [first_time |-> info.first_time,
     last_time  |-> time_info,
     count      |-> info.count + 1,
     ranks      |-> data.ranks,
     url        |-> StrOr(info.url, data.url),
     mobileUrl  |-> StrOr(info.mobileUrl, data.mobileUrl)]

\* a merge that overwrites first_time as it does last_time
MergedRecord_FirstTime(info, existing_data, data, time_info) ==
    [first_time |-> time_info,
     last_time  |-> time_info,
     count      |-> info.count + 1,
     ranks      |-> MergeRanks(existing_data.ranks, data.ranks),
     url        |-> StrOr(info.url, data.url),
     mobileUrl  |-> StrOr(info.mobileUrl, data.mobileUrl)]

MergedRecord(info, existing_data, data, time_info) ==
    [first_time |-> info.first_time,
     last_time  |-> time_info,
     count      |-> info.count + 1,
     ranks      |-> MergeRanks(existing_data.ranks, data.ranks),
     url        |-> StrOr(info.url, data.url),
     mobileUrl  |-> StrOr(info.mobileUrl, data.mobileUrl)]

\* a merge that replaces the source's titles by those of the incoming snapshot
MergedKeys_Overwrite(existing, title_data) == DOMAIN title_data

\* The keys of a known source after the loop over title_data: the loop assigns
\* the keys of title_data and deletes none.
MergedKeys(existing, title_data) == DOMAIN existing \cup DOMAIN title_data

\* The state of the aggregation is the pair [res |-> all_results, info |-> title_info].
process_source_data(source_id, title_data, time_info, st) ==
    IF source_id \notin DOMAIN st.res
    THEN [res  |-> Put(st.res, source_id, title_data),
          info |-> Put(st.info, source_id,
                       [t \in DOMAIN Get(st.info, source_id, EmptyDict) \cup DOMAIN title_data |->
                           IF t \in DOMAIN title_data
                           THEN NewRecord(title_data[t], time_info)
                           ELSE st.info[source_id][t]])]
    ELSE LET old     == st.res[source_id]
             oldinfo == st.info[source_id]
         IN  [res  |-> Put(st.res, source_id,
                           [t \in MergedKeys(old, title_data) |->
                               IF t \notin DOMAIN title_data THEN old[t]
                               ELSE IF t \notin DOMAIN old
                                    THEN [ranks     |-> title_data[t].ranks,
                                          url       |-> title_data[t].url,
                                          mobileUrl |-> title_data[t].mobileUrl]
                                    ELSE MergedResult(old[t], title_data[t])]),
              info |-> Put(st.info, source_id,
                           [t \in MergedKeys(oldinfo, title_data) |->
                               IF t \notin DOMAIN title_data THEN oldinfo[t]
                               ELSE IF t \notin DOMAIN old
                                    THEN NewRecord(title_data[t], time_info)
                                    ELSE MergedRecord(oldinfo[t], old[t], title_data[t],
                                                      time_info)])]

----------------------------------------------------------------------------
(* read_all_today_titles *)

\* the filter on current_platform_ids applied to one parsed file
FilterPlatforms(titles_by_id, current_platform_ids) ==
    IF ~current_platform_ids.given THEN titles_by_id
    ELSE [s \in DOMAIN titles_by_id \cap current_platform_ids.ids |-> titles_by_id[s]]

\* for source_id, title_data in titles_by_id.items(): process_source_data(...)
RECURSIVE MergeSources(_, _, _, _)
MergeSources(todo, titles_by_id, time_info, st) ==
    IF todo = {} THEN st
    ELSE LET source_id == CHOOSE s \in todo : TRUE
         IN  MergeSources(todo \ {source_id}, titles_by_id, time_info,
                          process_source_data(source_id, titles_by_id[source_id],
                                              time_info, st))

\* the body of the loop over the files
MergeFile(file, current_platform_ids, st) ==
    LET titles_by_id == FilterPlatforms(file.data, current_platform_ids)
    IN  MergeSources(DOMAIN titles_by_id, titles_by_id, file.label, st)

EmptyState == [res |-> EmptyDict, info |-> EmptyDict]

\* the whole loop, over the files in the order given
RECURSIVE ReadFiles(_, _, _)
ReadFiles(fs, current_platform_ids, st) ==
    IF fs = <<>> THEN st
    ELSE ReadFiles(Tail(fs), current_platform_ids,
                   MergeFile(Head(fs), current_platform_ids, st))

----------------------------------------------------------------------------
(* detect_latest_new_titles *)

\* historical_titles[source_id]: the titles of the files before the latest one
RECURSIVE HistoricalTitles(_, _, _)
HistoricalTitles(fs, current_platform_ids, acc) ==
    IF fs = <<>> THEN acc
    ELSE LET historical_data == FilterPlatforms(Head(fs).data, current_platform_ids)
         IN  HistoricalTitles(Tail(fs), current_platform_ids,
                 [s \in DOMAIN acc \cup DOMAIN historical_data |->
                     Get(acc, s, {}) \cup
                     (IF s \in DOMAIN historical_data THEN DOMAIN historical_data[s] ELSE {})])

\* a detector that compares the latest file with the one before it only
HistoricalFiles_PreviousOnly(fs) == SubSeq(fs, Len(fs) - 1, Len(fs) - 1)

\* files[:-1]
HistoricalFiles(fs) == SubSeq(fs, 1, Len(fs) - 1)

\* a detector that looks a title up among the earlier titles of every source
detect_latest_new_titles_AnySource(fs, current_platform_ids) ==
    IF Len(fs) < 2 THEN EmptyDict
    ELSE LET latest_titles == FilterPlatforms(fs[Len(fs)].data, current_platform_ids)
             historical_titles == HistoricalTitles(HistoricalFiles(fs),
                                                   current_platform_ids, EmptyDict)
             earlier == UNION {historical_titles[s] : s \in DOMAIN historical_titles}
             SourceNew(s) == {t \in DOMAIN latest_titles[s] : t \notin earlier}
         IN  [s \in {x \in DOMAIN latest_titles : SourceNew(x) /= {}} |->
                 [t \in SourceNew(s) |-> latest_titles[s][t]]]

detect_latest_new_titles(fs, current_platform_ids) ==
    IF Len(fs) < 2 THEN EmptyDict
    ELSE LET latest_titles == FilterPlatforms(fs[Len(fs)].data, current_platform_ids)
             historical_titles == HistoricalTitles(HistoricalFiles(fs),
                                                   current_platform_ids, EmptyDict)
             SourceNew(s) == {t \in DOMAIN latest_titles[s] :
                                 t \notin Get(historical_titles, s, {})}
         IN  [s \in {x \in DOMAIN latest_titles : SourceNew(x) /= {}} |->
                 [t \in SourceNew(s) |-> latest_titles[s][t]]]

----------------------------------------------------------------------------
(* Strings: str.lower() and the substring test `a in b` *)

LowerChar(c) ==
    CASE c = "A" -> "a"
      [] c = "C" -> "c"
      [] c = "G" -> "g"
      [] c = "I" -> "i"
      [] c = "X" -> "x"
      [] OTHER   -> c

\* str.lower()
Lower(str) == [i \in DOMAIN str |-> LowerChar(str[i])]

\* sub in str
Contains(sub, str) ==
    \E i \in 0..(Len(str) - Len(sub)) : SubSeq(str, i + 1, i + Len(sub)) = sub

\* " ".join(words)
RECURSIVE Join(_)
Join(words) ==
    IF words = <<>> THEN <<>>
    ELSE IF Len(words) = 1 THEN words[1]
    ELSE words[1] \o <<" ">> \o Join(Tail(words))

----------------------------------------------------------------------------
(* matches_word_groups *)

\* a check that compares the filter words as written, without lower()
AnyFilterWord_CaseSensitive(title_lower, words) ==
    \E i \in DOMAIN words : Contains(words[i], title_lower)

\* any(filter_word.lower() in title_lower for filter_word in filter_words)
AnyFilterWord(title_lower, words) ==
    \E i \in DOMAIN words : Contains(Lower(words[i]), title_lower)

\* the check of the required words: a group without required words passes it
RequiredPresent_Any(title_lower, required_words) ==
    required_words /= <<>> =>
        \E i \in DOMAIN required_words : Contains(Lower(required_words[i]), title_lower)

RequiredPresent(title_lower, required_words) ==
    required_words /= <<>> =>
        \A i \in DOMAIN required_words : Contains(Lower(required_words[i]), title_lower)

\* the check of the normal words: a group without normal words passes it
NormalPresent(title_lower, normal_words) ==
    normal_words /= <<>> =>
        \E i \in DOMAIN normal_words : Contains(Lower(normal_words[i]), title_lower)

\* for group in word_groups: ... continue ... return True; return False
RECURSIVE AnyGroupMatches(_, _)
AnyGroupMatches(title_lower, groups) ==
    IF groups = <<>> THEN FALSE
    ELSE IF ~RequiredPresent(title_lower, Head(groups).required)
         THEN AnyGroupMatches(title_lower, Tail(groups))
    ELSE IF ~NormalPresent(title_lower, Head(groups).normal)
         THEN AnyGroupMatches(title_lower, Tail(groups))
    ELSE TRUE

matches_word_groups(ttl, groups, filters) ==
    IF groups = <<>> THEN TRUE
    ELSE IF AnyFilterWord(Lower(ttl), filters) THEN FALSE
    ELSE AnyGroupMatches(Lower(ttl), groups)

----------------------------------------------------------------------------
(* calculate_news_weight.  The weight is total_weight = num / den with the *)
(* weights of the configuration in tenths; two weights are compared as     *)
(* fractions, where the code compares floats.                              *)

RankWeight == 6

FrequencyWeight == 3

HotnessWeight == 1

RankThreshold == 1

RECURSIVE SumSeq(_)
SumSeq(q) == IF q = <<>> THEN 0 ELSE Head(q) + SumSeq(Tail(q))

MinOf(a, b) == IF a <= b THEN a ELSE b

\* a score that grows with the rank: the 11 - of the score is left out
RankScores_Raw(ranks) == [i \in DOMAIN ranks |-> MinOf(ranks[i], 10)]

\* rank_scores: 11 - min(rank, 10)
RankScores(ranks) == [i \in DOMAIN ranks |-> 11 - MinOf(ranks[i], 10)]

\* sum(1 for rank in ranks if rank <= rank_threshold)
HighRankCount(ranks, rank_threshold) ==
    Cardinality({i \in DOMAIN ranks : ranks[i] <= rank_threshold})

\* total_weight * len(ranks)
WeightNum(x, rank_threshold) ==
    IF x.ranks = <<>> THEN 0
    ELSE SumSeq(RankScores(x.ranks)) * RankWeight
         + MinOf(x.count, 10) * 10 * FrequencyWeight * Len(x.ranks)
         + HighRankCount(x.ranks, rank_threshold) * 100 * HotnessWeight

WeightDen(x) == IF x.ranks = <<>> THEN 1 ELSE Len(x.ranks)

\* calculate_news_weight(x) > calculate_news_weight(y)
WeightGreater(x, y, rank_threshold) ==
    WeightNum(x, rank_threshold) * WeightDen(y) > WeightNum(y, rank_threshold) * WeightDen(x)

\* the call with its local rank_weight and its result total_weight, each a
\* fraction <<numerator, denominator>>; without ranks the result is 0.0
calculate_news_weight(title_data, rank_threshold) ==
    [title_data   |-> title_data,
     rank_weight  |-> IF title_data.ranks = <<>> THEN <<0, 1>>
                      ELSE <<SumSeq(RankScores(title_data.ranks)), Len(title_data.ranks)>>,
     total_weight |-> <<WeightNum(title_data, rank_threshold), WeightDen(title_data)>>]

----------------------------------------------------------------------------
(* count_word_frequency *)

AllNewsKey == <<"ALL NEWS">>

NoTime == 0

\* is_first_crawl_today(): the day's directory holds at most one file
is_first_crawl_today(fs) == Len(fs) <= 1

\* final_id_to_name: the files are written without display names, and
\* parse_file_titles then names a source by its id
IdToName(results) == [s \in DOMAIN results |-> s]

\* the keys of a dict in the order in which they are iterated
KeysInOrder(order, d) == SelectSeq(order, LAMBDA k : k \in DOMAIN d)

\* the (source_id, title) pairs of results_to_process in the order of the two loops
RECURSIVE PairsOf(_, _)
PairsOf(sources, results) ==
    IF sources = <<>> THEN <<>>
    ELSE LET ts == KeysInOrder(AggTitleSeq, results[Head(sources)])
         IN  [i \in 1..Len(ts) |-> <<Head(sources), ts[i]>>] \o PairsOf(Tail(sources), results)

\* current mode: the greatest last_time of title_info, None (NoTime) without one
LatestTime(info) ==
    LET times == UNION {{info[s][t].last_time : t \in DOMAIN info[s]} : s \in DOMAIN info}
                     \ {NoTime}
    IN  IF times = {} THEN NoTime ELSE Max(times)

\* a filter by the latest time of each source by itself
CurrentResults_PerSource(results, info) ==
    [s \in {x \in DOMAIN results : x \in DOMAIN info} |->
        [t \in {u \in DOMAIN results[s] :
                   u \in DOMAIN info[s]
                   /\ info[s][u].last_time = Max({info[s][v].last_time : v \in DOMAIN info[s]})} |->
            results[s][t]]]

CurrentResults(results, info) ==
    LET latest_time == LatestTime(info)
        Filtered(s) == {t \in DOMAIN results[s] :
                           t \in DOMAIN info[s] /\ info[s][t].last_time = latest_time}
    IN  IF info = EmptyDict \/ latest_time = NoTime THEN results
        ELSE [s \in {x \in DOMAIN results : x \in DOMAIN info /\ Filtered(x) /= {}} |->
                 [t \in Filtered(s) |-> results[s][t]]]

\* a count that takes every accumulated title in every run
ResultsToProcess_All(results, info, new, md, is_first_today) ==
    IF md = "current" THEN CurrentResults(results, info) ELSE results

ResultsToProcess(results, info, new, md, is_first_today) ==
    IF md = "incremental"
    THEN IF is_first_today THEN results ELSE new
    ELSE IF md = "current" THEN CurrentResults(results, info)
    ELSE results

\* all_news_are_new set in the current mode as well
AllNewsAreNew_Current(md) == md \in {"incremental", "current"}

AllNewsAreNew(md) == md = "incremental"

\* len(word_groups) == 1 and word_groups[0]["group_key"] == "全部新闻"
IsAllNews(groups) == Len(groups) = 1 /\ groups[1].group_key = AllNewsKey

\* the loop that finds the group of a matched title: the index of the first
\* group that takes it, 0 when the loop ends without one
RECURSIVE FirstGroup(_, _, _)
FirstGroup(title_lower, groups, i) ==
    IF i > Len(groups) THEN 0
    ELSE IF IsAllNews(groups) THEN i
    ELSE IF ~RequiredPresent(title_lower, groups[i].required)
         THEN FirstGroup(title_lower, groups, i + 1)
    ELSE IF ~NormalPresent(title_lower, groups[i].normal)
         THEN FirstGroup(title_lower, groups, i + 1)
    ELSE i

\* a loop without its break: the title goes to the last group that takes it
RECURSIVE LastGroup(_, _, _)
LastGroup(title_lower, groups, i) ==
    IF i > Len(groups) THEN 0
    ELSE IF IsAllNews(groups) THEN i
    ELSE LET later == LastGroup(title_lower, groups, i + 1)
         IN  IF later /= 0 THEN later
             ELSE IF RequiredPresent(title_lower, groups[i].required)
                     /\ NormalPresent(title_lower, groups[i].normal)
                  THEN i ELSE 0

GroupOf_Last(ttl, groups) == LastGroup(Lower(ttl), groups, 1)

GroupOf(ttl, groups) == FirstGroup(Lower(ttl), groups, 1)

\* format_time_display: "" is <<>>, "t" is <<t>>, "[t1 ~ t2]" is <<t1, t2>>
format_time_display(first_time, last_time) ==
    IF first_time = NoTime THEN <<>>
    ELSE IF first_time = last_time \/ last_time = NoTime THEN <<first_time>>
    ELSE <<first_time, last_time>>

\* the record appended to word_stats[group_key]["titles"][source_id]
TitleView(source_id, ttl, title_data, id_to_name, info, rank_threshold, new, md) ==
    LET known == source_id \in DOMAIN info /\ ttl \in DOMAIN info[source_id]
        rec == info[source_id][ttl]
        first_time == IF known THEN rec.first_time ELSE NoTime
        last_time == IF known THEN rec.last_time ELSE NoTime
        ranks0 == IF known /\ rec.ranks /= <<>> THEN rec.ranks ELSE title_data.ranks
    IN  [title          |-> ttl,
         source_name    |-> Get(id_to_name, source_id, source_id),
         first_time     |-> first_time,
         last_time      |-> last_time,
         time_display   |-> format_time_display(first_time, last_time),
         count          |-> IF known THEN rec.count ELSE 1,
         ranks          |-> IF ranks0 = <<>> THEN <<99>> ELSE ranks0,
         rank_threshold |-> rank_threshold,
         url            |-> IF known THEN rec.url ELSE title_data.url,
         mobileUrl      |-> IF known THEN rec.mobileUrl ELSE title_data.mobileUrl,
         is_new         |-> IF AllNewsAreNew(md) THEN TRUE
                            ELSE IF new /= EmptyDict /\ source_id \in DOMAIN new
                                 THEN ttl \in DOMAIN new[source_id]
                                 ELSE FALSE]

\* word_stats after the loop over results_to_process; ws maps a group_key to
\* [count, titles], titles being the views in the order appended (the lists
\* of the sources one after the other, as all_titles.extend puts them)
RECURSIVE CountLoop(_, _, _, _, _, _, _, _, _)
CountLoop(pairs, ws, to_process, groups, filters, id_to_name, info, new, md) ==
    IF pairs = <<>> THEN ws
    ELSE LET source_id == Head(pairs)[1]
             ttl == Head(pairs)[2]
             g == GroupOf(ttl, groups)
             key == groups[g].group_key
             view == TitleView(source_id, ttl, to_process[source_id][ttl], id_to_name,
                               info, RankThreshold, new, md)
             ws2 == IF ~matches_word_groups(ttl, groups, filters) \/ g = 0 THEN ws
                    ELSE [ws EXCEPT ![key] = [count  |-> @.count + 1,
                                              titles |-> Append(@.titles, view)]]
         IN  CountLoop(Tail(pairs), ws2, to_process, groups, filters, id_to_name,
                       info, new, md)

\* a sort by the weight alone
ViewBefore_WeightOnly(x, y) == WeightGreater(x, y, RankThreshold)

\* the sort key (-weight, min(ranks), -count): x is placed before y
ViewBefore(x, y) ==
    \/ WeightGreater(x, y, RankThreshold)
    \/ /\ ~WeightGreater(y, x, RankThreshold)
       /\ \/ Min(Range(x.ranks)) < Min(Range(y.ranks))
          \/ Min(Range(x.ranks)) = Min(Range(y.ranks)) /\ x.count > y.count

StatBefore(x, y) == x.count > y.count

\* sorted(): stable, an element goes behind those it is not placed before
RECURSIVE InsertView(_, _)
InsertView(x, q) ==
    IF q = <<>> THEN <<x>>
    ELSE IF ViewBefore(x, Head(q)) THEN <<x>> \o q
    ELSE <<Head(q)>> \o InsertView(x, Tail(q))

RECURSIVE SortedViews(_)
SortedViews(q) ==
    IF q = <<>> THEN <<>>
    ELSE InsertView(q[Len(q)], SortedViews(SubSeq(q, 1, Len(q) - 1)))

RECURSIVE InsertStat(_, _)
InsertStat(x, q) ==
    IF q = <<>> THEN <<x>>
    ELSE IF StatBefore(x, Head(q)) THEN <<x>> \o q
    ELSE <<Head(q)>> \o InsertStat(x, Tail(q))

\* stats.sort(key=count, reverse=True)
RECURSIVE SortedStats(_)
SortedStats(q) ==
    IF q = <<>> THEN <<>>
    ELSE InsertStat(q[Len(q)], SortedStats(SubSeq(q, 1, Len(q) - 1)))

\* the group keys in the order in which word_stats got them
RECURSIVE KeyOrder(_, _)
KeyOrder(groups, seen) ==
    IF groups = <<>> THEN seen
    ELSE KeyOrder(Tail(groups),
                  IF Head(groups).group_key \in Range(seen) THEN seen
                  ELSE Append(seen, Head(groups).group_key))

\* round(count / total_titles * 100, 2), in hundredths
Percentage(count, total) ==
    IF total > 0 THEN (count * 10000 * 2 + total) \div (2 * total) ELSE 0

RECURSIVE TotalTitles(_, _)
TotalTitles(sources, to_process) ==
    IF sources = <<>> THEN 0
    ELSE Cardinality(DOMAIN to_process[Head(sources)]) + TotalTitles(Tail(sources), to_process)

\* a count that keeps the filter words when no group is configured
EffectiveFilters_Keep(groups0, filters0) == filters0

\* filter_words = [] when word_groups is empty
EffectiveFilters(groups0, filters0) == IF groups0 = <<>> THEN <<>> ELSE filters0

\* a list of Stat whose count is len(data["titles"]), the number of sources
\* that have a title in the group
StatsOf_SourceCount(keys, ws, total) ==
    SortedStats([i \in 1..Len(keys) |->
                    [word       |-> keys[i],
                     count      |-> Cardinality({ws[keys[i]].titles[n].source_name :
                                                    n \in DOMAIN ws[keys[i]].titles}),
                     titles     |-> SortedViews(ws[keys[i]].titles),
                     percentage |-> Percentage(ws[keys[i]].count, total)]])

\* the list of Stat made of word_stats: the titles of every group sorted, the
\* groups sorted by their count
StatsOf(keys, ws, total) ==
    SortedStats([i \in 1..Len(keys) |->
                    [word       |-> keys[i],
                     count      |-> ws[keys[i]].count,
                     titles     |-> SortedViews(ws[keys[i]].titles),
                     percentage |-> Percentage(ws[keys[i]].count, total)]])

count_word_frequency(results, groups0, filters0, id_to_name, info, new, md, is_first_today) ==
    LET groups == IF groups0 = <<>>
                  THEN <<[required |-> <<>>, normal |-> <<>>, group_key |-> AllNewsKey]>>
                  ELSE groups0
        filters == EffectiveFilters(groups0, filters0)
        to_process == ResultsToProcess(results, info, new, md, is_first_today)
        sources == KeysInOrder(SourceSeq, to_process)
        keys == KeyOrder(groups, <<>>)
        ws0 == [k \in Range(keys) |-> [count |-> 0, titles |-> <<>>]]
        ws == CountLoop(PairsOf(sources, to_process), ws0, to_process, groups, filters,
                        id_to_name, info, new, md)
        total == TotalTitles(sources, to_process)
    IN  [stats |-> StatsOf(keys, ws, total), total_titles |-> total]

----------------------------------------------------------------------------
(* The state of the rule loader, of the weight calls and of the batch      *)
(* packer before any of them has run.                                      *)

\* prepare_report_data without stats, new titles and failed ids
EmptyReport == [stats |-> <<>>, new_titles |-> <<>>, failed_ids |-> <<>>, total_new_count |-> 0]

\* update_info is None
NoUpdate == [given |-> FALSE, remote_version |-> 0, current_version |-> 0]

\* nothing crawled, written or parsed
NoCrawl == [results |-> <<>>, id_to_name |-> EmptyDict, failed_ids |-> <<>>]

NoParse == [titles_by_id |-> EmptyDict, id_to_name |-> EmptyDict]

NoPushConf == [enabled |-> FALSE, once_per_day |-> FALSE, start |-> <<>>, end |-> <<>>,
               retention_days |-> 0, channels |-> {}]

FileAndPushInitial ==
    /\ crawl = NoCrawl
    /\ file_text = <<>>
    /\ parsed = NoParse
    /\ push_conf = NoPushConf
    /\ clock = [day |-> 1, hour |-> 0, minute |-> 0]
    /\ push_files = EmptyDict
    /\ push_calls = <<>>

OthersInitial ==
    /\ FileAndPushInitial
    /\ rule_file = <<>>
    /\ weighed = <<>>
    /\ report_data = EmptyReport
    /\ format_type = "wework"
    /\ update_info = NoUpdate
    /\ max_bytes = 0
    /\ batches = <<>>
    /\ decisions = <<>>

----------------------------------------------------------------------------
(* One run of the job per crawl: a snapshot file is written, the new       *)
(* titles are detected, and the day's files are merged one by one.         *)

Init ==
    /\ files = <<>>
    /\ pc = "idle"
    /\ idx = 0
    /\ platform = NoFilter
    /\ all_results = EmptyDict
    /\ title_info = EmptyDict
    /\ new_titles = EmptyDict
    /\ word_groups = <<>>
    /\ filter_words = <<>>
    /\ title = <<>>
    /\ matched = FALSE
    /\ mode = "daily"
    /\ stats = <<>>
    /\ total_titles = 0
    /\ OthersInitial

\* save_titles_to_file: a new file, its label after those of the day
Crawl(snap) ==
    /\ pc \in {"idle", "counted"}
    /\ Len(files) < MaxFiles
    /\ files' = Append(files, [label |-> Len(files) + 1, data |-> snap])
    /\ pc' = "crawled"
    /\ idx' = 0
    /\ platform' = NoFilter
    /\ all_results' = EmptyDict
    /\ title_info' = EmptyDict
    /\ new_titles' = EmptyDict
    /\ mode' = "daily"
    /\ stats' = <<>>
    /\ total_titles' = 0
    /\ UNCHANGED <<configVars, matchVars>>
    /\ UNCHANGED <<loadVars, weightVars, packVars, fileVars, pushVars>>

Detect(p) ==
    /\ pc = "crawled"
    /\ platform' = p
    /\ new_titles' = detect_latest_new_titles(files, p)
    /\ pc' = "reading"
    /\ UNCHANGED <<files, idx, all_results, title_info, configVars, matchVars, countVars>>
    /\ UNCHANGED <<loadVars, weightVars, packVars, fileVars, pushVars>>

MergeNextFile ==
    /\ pc = "reading"
    /\ idx < Len(files)
    /\ LET st == MergeFile(files[idx + 1], platform,
                           [res |-> all_results, info |-> title_info])
       IN  /\ all_results' = st.res
           /\ title_info' = st.info
    /\ idx' = idx + 1
    /\ UNCHANGED <<files, pc, platform, new_titles, configVars, matchVars, countVars>>
    /\ UNCHANGED <<loadVars, weightVars, packVars, fileVars, pushVars>>

EndRead ==
    /\ pc = "reading"
    /\ idx = Len(files)
    /\ pc' = "idle"
    /\ UNCHANGED <<files, idx, platform, all_results, title_info, new_titles,
                   configVars, matchVars, countVars>>
    /\ UNCHANGED <<loadVars, weightVars, packVars, fileVars, pushVars>>

Next ==
    \/ \E snap \in Snapshots : Crawl(snap)
    \/ \E p \in PlatformChoices : Detect(p)
    \/ MergeNextFile
    \/ EndRead

Spec == Init /\ [][Next]_vars

----------------------------------------------------------------------------
(* process_source_data applied to any sequence of snapshots, a snapshot    *)
(* already merged included.  Here files is the log of the merges, in the   *)
(* order in which they were made.                                          *)

InitMerge ==
    /\ files = <<>>
    /\ pc = "merging"
    /\ idx = 0
    /\ platform = NoFilter
    /\ all_results = EmptyDict
    /\ title_info = EmptyDict
    /\ new_titles = EmptyDict
    /\ word_groups = <<>>
    /\ filter_words = <<>>
    /\ title = <<>>
    /\ matched = FALSE
    /\ mode = "daily"
    /\ stats = <<>>
    /\ total_titles = 0
    /\ OthersInitial

MergeLogged(file) ==
    /\ Len(files) < MaxFiles
    /\ files' = Append(files, file)
    /\ idx' = Len(files) + 1
    /\ LET st == MergeFile(file, platform, [res |-> all_results, info |-> title_info])
       IN  /\ all_results' = st.res
           /\ title_info' = st.info
    /\ UNCHANGED <<pc, platform, new_titles, configVars, matchVars, countVars>>
    /\ UNCHANGED <<loadVars, weightVars, packVars, fileVars, pushVars>>

\* a snapshot not merged before, its label after those merged
MergeSnapshot(snap) ==
    MergeLogged([label |-> Max({0} \cup {files[i].label : i \in DOMAIN files}) + 1,
                 data |-> snap])

\* a snapshot merged before, merged once more
MergeAgain(i) ==
    /\ i \in DOMAIN files
    /\ MergeLogged(files[i])

NextMerge ==
    \/ \E snap \in Snapshots : MergeSnapshot(snap)
    \/ \E i \in 1..MaxFiles : MergeAgain(i)

SpecMerge == InitMerge /\ [][NextMerge]_vars

----------------------------------------------------------------------------
(* The configurations load_frequency_words can return *)

TermAI == <<"A", "i">>

TermC == <<"c">>

TermG == <<"G">>

TermX == <<"X">>

\* a group as load_frequency_words builds it
Group(required, normal) ==
    [required  |-> required,
     normal    |-> normal,
     group_key |-> Join(IF normal /= <<>> THEN normal ELSE required)]

Groups == {Group(r, n) : r \in {<<>>, <<TermAI>>, <<TermAI, TermG>>},
                         n \in {<<>>, <<TermC>>, <<TermC, TermG>>}}
          \ {Group(<<>>, <<>>)}

GroupLists(G) == {<<>>} \cup {<<g>> : g \in G} \cup {<<g, h>> : g \in G, h \in G}

FilterLists == {<<>>, <<TermX>>}

\* the groups of the configurations under which a day is counted
CountGroups == {Group(<<TermAI>>, <<>>), Group(<<>>, <<TermC>>),
                Group(<<TermAI>>, <<TermC>>), Group(<<>>, <<TermC, TermG>>)}

TitleChars == {"a", "I", "c", "g", "x"}

MatchTitles == UNION {[1..n -> TitleChars] : n \in 0..MaxTitleLen}

----------------------------------------------------------------------------
(* matches_word_groups applied to any title under any configuration *)

InitMatch ==
    /\ files = <<>>
    /\ pc = "loaded"
    /\ idx = 0
    /\ platform = NoFilter
    /\ all_results = EmptyDict
    /\ title_info = EmptyDict
    /\ new_titles = EmptyDict
    /\ word_groups \in GroupLists(Groups)
    /\ filter_words \in FilterLists
    /\ title = <<>>
    /\ matched = FALSE
    /\ mode = "daily"
    /\ stats = <<>>
    /\ total_titles = 0
    /\ OthersInitial

MatchTitle(ttl) ==
    /\ pc = "loaded"
    /\ title' = ttl
    /\ matched' = matches_word_groups(ttl, word_groups, filter_words)
    /\ pc' = "matched"
    /\ UNCHANGED <<files, idx, platform, all_results, title_info, new_titles,
                   configVars, countVars>>
    /\ UNCHANGED <<loadVars, weightVars, packVars, fileVars, pushVars>>

NextMatch == \E ttl \in MatchTitles : MatchTitle(ttl)

SpecMatch == InitMatch /\ [][NextMatch]_vars

----------------------------------------------------------------------------
(* The titles of a day counted under any configuration: a file is written, *)
(* the new titles are detected, the day's files are merged, and the merged *)
(* titles are counted in one of the modes.                                 *)

Modes == {"daily", "incremental", "current"}

InitCount ==
    /\ files = <<>>
    /\ pc = "idle"
    /\ idx = 0
    /\ platform = NoFilter
    /\ all_results = EmptyDict
    /\ title_info = EmptyDict
    /\ new_titles = EmptyDict
    /\ word_groups \in GroupLists(CountGroups)
    /\ filter_words \in FilterLists
    /\ title = <<>>
    /\ matched = FALSE
    /\ mode = "daily"
    /\ stats = <<>>
    /\ total_titles = 0
    /\ OthersInitial

CrawlDay(snap) ==
    /\ Len(files) < MaxCountFiles
    /\ Crawl(snap)

Count(md) ==
    /\ pc = "idle"
    /\ idx = Len(files)
    /\ LET out == count_word_frequency(all_results, word_groups, filter_words,
                                       IdToName(all_results), title_info, new_titles,
                                       md, is_first_crawl_today(files))
       IN  /\ stats' = out.stats
           /\ total_titles' = out.total_titles
    /\ mode' = md
    /\ pc' = "counted"
    /\ UNCHANGED <<files, idx, platform, all_results, title_info, new_titles,
                   configVars, matchVars>>
    /\ UNCHANGED <<loadVars, weightVars, packVars, fileVars, pushVars>>

NextCount ==
    \/ \E snap \in Snapshots : CrawlDay(snap)
    \/ Detect(NoFilter)
    \/ MergeNextFile
    \/ EndRead
    \/ \E md \in Modes : Count(md)

SpecCount == InitCount /\ [][NextCount]_vars

----------------------------------------------------------------------------
(* load_frequency_words.  The content of the rule file is the sequence of  *)
(* its lines (content split at "\n"), a line being a sequence of           *)
(* characters.  content.split("\n\n") cuts the content where two newlines  *)
(* follow one another, that is at every empty line; what is left of a run  *)
(* of newlines is removed by strip().  A line of blanks is not empty and   *)
(* cuts nothing.                                                           *)

\* the lines a rule file is made of
RuleLines == {<<>>, <<" ">>, <<"c">>, <<"+", "A", "i">>, <<"!", "X">>, <<" ", "!", "G", " ">>}

\* the rule files read
MaxRuleLines == 4

RuleFiles == UNION {[1..n -> RuleLines] : n \in 0..MaxRuleLines}

RECURSIVE LStrip(_)
LStrip(word) == IF word /= <<>> /\ Head(word) = " " THEN LStrip(Tail(word)) ELSE word

RECURSIVE RStrip(_)
RStrip(word) ==
    IF word /= <<>> /\ word[Len(word)] = " " THEN RStrip(SubSeq(word, 1, Len(word) - 1))
    ELSE word

\* str.strip()
Strip(word) == RStrip(LStrip(word))

\* content.split("\n\n"): the runs of lines between the empty lines
RECURSIVE SplitGroups(_, _, _)
SplitGroups(lines, group, acc) ==
    IF lines = <<>> THEN Append(acc, group)
    ELSE IF Head(lines) = <<>> THEN SplitGroups(Tail(lines), <<>>, Append(acc, group))
    ELSE SplitGroups(Tail(lines), Append(group, Head(lines)), acc)

\* [word.strip() for word in group.split("\n") if word.strip()]
WordsOf(group) ==
    SelectSeq([i \in DOMAIN group |-> Strip(group[i])], LAMBDA word : word /= <<>>)

\* the words of a group that start with prefix, the prefix cut off (word[1:])
Prefixed(words, prefix) ==
    LET chosen == SelectSeq(words, LAMBDA word : Head(word) = prefix)
    IN  [i \in DOMAIN chosen |-> Tail(chosen[i])]

\* a loader that keeps the filter words of the groups it keeps only
FilterWordsAfter_Scoped(filters, group_required_words, group_normal_words, group_filter_words) ==
    IF group_required_words /= <<>> \/ group_normal_words /= <<>>
    THEN filters \o group_filter_words
    ELSE filters

\* filter_words.append(word[1:]) for every word of the group that starts with "!"
FilterWordsAfter(filters, group_required_words, group_normal_words, group_filter_words) ==
    filters \o group_filter_words

\* the body of the loop over word_groups; st is [processed_groups, filter_words]
LoadGroup(group, st) ==
    LET words == WordsOf(group)
        group_filter_words == Prefixed(words, "!")
        group_required_words == Prefixed(words, "+")
        group_normal_words == SelectSeq(words, LAMBDA word : Head(word) \notin {"!", "+"})
    IN  [processed_groups |->
             IF group_required_words /= <<>> \/ group_normal_words /= <<>>
             THEN Append(st.processed_groups, Group(group_required_words, group_normal_words))
             ELSE st.processed_groups,
         filter_words |->
             FilterWordsAfter(st.filter_words, group_required_words, group_normal_words,
                              group_filter_words)]

RECURSIVE LoadGroups(_, _)
LoadGroups(groups, st) ==
    IF groups = <<>> THEN st ELSE LoadGroups(Tail(groups), LoadGroup(Head(groups), st))

load_frequency_words(lines) ==
    LoadGroups(SelectSeq(SplitGroups(lines, <<>>, <<>>), LAMBDA group : WordsOf(group) /= <<>>),
               [processed_groups |-> <<>>, filter_words |-> <<>>])

InitLoad ==
    /\ files = <<>>
    /\ pc = "rules"
    /\ idx = 0
    /\ platform = NoFilter
    /\ all_results = EmptyDict
    /\ title_info = EmptyDict
    /\ new_titles = EmptyDict
    /\ word_groups = <<>>
    /\ filter_words = <<>>
    /\ title = <<>>
    /\ matched = FALSE
    /\ mode = "daily"
    /\ stats = <<>>
    /\ total_titles = 0
    /\ rule_file \in RuleFiles
    /\ weighed = <<>>
    /\ report_data = EmptyReport
    /\ format_type = "wework"
    /\ update_info = NoUpdate
    /\ max_bytes = 0
    /\ batches = <<>>
    /\ decisions = <<>>
    /\ FileAndPushInitial

LoadRules ==
    /\ pc = "rules"
    /\ LET out == load_frequency_words(rule_file)
       IN  /\ word_groups' = out.processed_groups
           /\ filter_words' = out.filter_words
    /\ pc' = "rules_loaded"
    /\ UNCHANGED <<files, idx, platform, all_results, title_info, new_titles, matchVars,
                   countVars, loadVars, weightVars, packVars, fileVars, pushVars>>

NextLoad == LoadRules

SpecLoad == InitLoad /\ [][NextLoad]_vars

----------------------------------------------------------------------------
(* calculate_news_weight applied to the title records of a group, and the  *)
(* sort of the group's titles.                                             *)

\* the titles weighed
MaxWeighed == 3

\* the rank histories and the counts of the records weighed: a count is at
\* least the number of ranks
WeighRanks == {<<2>>, <<3>>, <<2, 4>>, <<1, 4>>, <<10>>, <<11>>}

WeighCounts == {2, 10, 11}

WeighRecords == {[ranks |-> r, count |-> c] : r \in WeighRanks, c \in WeighCounts}

WeighKey == <<"c">>

InitWeight ==
    /\ files = <<>>
    /\ pc = "weighing"
    /\ idx = 0
    /\ platform = NoFilter
    /\ all_results = EmptyDict
    /\ title_info = EmptyDict
    /\ new_titles = EmptyDict
    /\ word_groups = <<Group(<<>>, <<WeighKey>>)>>
    /\ filter_words = <<>>
    /\ title = <<>>
    /\ matched = FALSE
    /\ mode = "daily"
    /\ stats = <<>>
    /\ total_titles = 0
    /\ OthersInitial

Weigh(title_data) ==
    /\ pc = "weighing"
    /\ Len(weighed) < MaxWeighed
    /\ weighed' = Append(weighed, calculate_news_weight(title_data, RankThreshold))
    /\ UNCHANGED <<aggVars, configVars, matchVars, countVars, loadVars, packVars, fileVars, pushVars>>

\* the end of count_word_frequency for a group that holds the records weighed
SortTitles ==
    /\ pc = "weighing"
    /\ weighed /= <<>>
    /\ LET all_titles == [i \in DOMAIN weighed |-> weighed[i].title_data]
           word_stats == [k \in {WeighKey} |->
                             [count |-> Len(all_titles), titles |-> all_titles]]
       IN  stats' = StatsOf(<<WeighKey>>, word_stats, Len(all_titles))
    /\ total_titles' = Len(weighed)
    /\ pc' = "sorted"
    /\ UNCHANGED <<files, idx, platform, all_results, title_info, new_titles, mode,
                   configVars, matchVars, loadVars, weightVars, packVars, fileVars, pushVars>>

NextWeight ==
    \/ \E title_data \in WeighRecords : Weigh(title_data)
    \/ SortTitles

SpecWeight == InitWeight /\ [][NextWeight]_vars

----------------------------------------------------------------------------
(* split_content_into_batches.  A string is the sequence of the pieces it  *)
(* was put together from, each with the length of its UTF-8 encoding; the  *)
(* empty string is <<>>.  A piece is a header, a line or the footer:       *)
(* [kind, i, j, bytes], i being the place of the group, source or failed   *)
(* id in its list, j the place of the title in its group or source.  A     *)
(* title of the report carries the length of the text that                 *)
(* format_title_for_platform makes of it.                                  *)

Piece(kind, i, j, bytes) == [kind |-> kind, i |-> i, j |-> j, bytes |-> bytes]

\* len(str(n))
RECURSIVE Digits(_)
Digits(n) == IF n < 10 THEN 1 ELSE 1 + Digits(n \div 10)

\* len(s.encode("utf-8"))
RECURSIVE ByteLen(_)
ByteLen(str) == IF str = <<>> THEN 0 ELSE Head(str).bytes + ByteLen(Tail(str))

\* len(format_title_for_platform(...).encode("utf-8"))
FormattedBytes(title_data) == title_data.bytes

\* sum(len(stat["titles"]) for stat in report_data["stats"] if stat["count"] > 0)
RECURSIVE PackTotalTitles(_)
PackTotalTitles(stat_list) ==
    IF stat_list = <<>> THEN 0
    ELSE (IF Head(stat_list).count > 0 THEN Len(Head(stat_list).titles) ELSE 0)
         + PackTotalTitles(Tail(stat_list))

BaseHeader(fmt, total) ==
    <<Piece("base_header", 0, 0, (IF fmt = "wework" THEN 24 ELSE 18) + Digits(total))>>

\* the time of the footer is 19 characters; a notice of a new version follows it
BaseFooter(fmt, upd) ==
    <<Piece("footer", 0, 0,
            (IF fmt = "wework" THEN 39 ELSE 36)
            + (IF upd.given
               THEN (IF fmt = "wework" THEN 48 ELSE 38) + upd.remote_version + upd.current_version
               ELSE 0))>>

StatsHeader(fmt, stat_list) ==
    IF stat_list = <<>> THEN <<>>
    ELSE <<Piece("stats_header", 0, 0, IF fmt = "wework" THEN 29 ELSE 25)>>

\* the header of group i of total_count: the mark, [i/total_count], the word
\* and the count, which wework prints in bold from 5 on
WordHeader(fmt, i, total_count, stat) ==
    <<Piece("word_header", i, 0,
            (IF fmt = "wework" THEN (IF stat.count >= 5 THEN 23 ELSE 19) ELSE 15)
            + 3 + Digits(i) + Digits(total_count) + stat.word + Digits(stat.count))>>

\* "  {j}. {formatted_title}\n", and one more "\n" where the code adds it
NewsLine(kind, i, j, title_data, more) ==
    <<Piece(kind, i, j, 5 + Digits(j) + FormattedBytes(title_data) + (IF more THEN 1 ELSE 0))>>

Separator(fmt) == <<Piece("separator", 0, 0, IF fmt = "wework" THEN 4 ELSE 2)>>

NewHeader(fmt, total_new_count) ==
    <<Piece("new_header", 0, 0, (IF fmt = "wework" THEN 50 ELSE 44) + Digits(total_new_count))>>

SourceHeader(fmt, i, source_data) ==
    <<Piece("source_header", i, 0,
            (IF fmt = "wework" THEN 14 ELSE 10)
            + source_data.source_name + Digits(Len(source_data.titles)))>>

NewLine == <<Piece("newline", 0, 0, 1)>>

FailedHeader(fmt) == <<Piece("failed_header", 0, 0, IF fmt = "wework" THEN 47 ELSE 41)>>

FailedLine(i, id_value) == <<Piece("failed_line", i, 0, 7 + id_value)>>

\* mode_text, named by what it says: the three texts are
\* "增量模式下暂无新增匹配的热点词汇", "当前榜单模式下暂无匹配的热点词汇" and
\* "暂无匹配的热点词汇"
ModeText(md) ==
    CASE md = "incremental" -> "no new match in incremental mode"
      [] md = "current"     -> "no match in current mode"
      [] OTHER              -> "no match"

\* a placeholder that says the same in every mode
SimpleContent_Daily(md) ==
    <<[kind |-> "placeholder", i |-> 0, j |-> 0, bytes |-> 34, text |-> ModeText("daily")]>>

\* simple_content, the text for a report without stats, new titles and failed
\* ids: the mark, mode_text and two line ends
SimpleContent(md) ==
    <<[kind  |-> "placeholder", i |-> 0, j |-> 0,
       bytes |-> IF md \in {"incremental", "current"} THEN 55 ELSE 34,
       text  |-> ModeText(md)]>>

\* The state of the packing is p = [batches, current_batch, has_content, log];
\* c holds what does not change: [fmt, base_header, base_footer, stats_header,
\* max_bytes].  The log holds one entry for every size test made:
\* [prospective, open, separator, closed], the size tested, whether the
\* current batch had content, whether the candidate was the separator of two
\* groups, and whether the test added a batch to the list.

\* len(test_content.encode("utf-8")) + len(base_footer.encode("utf-8"))
Prospective(p, candidate, c) ==
    ByteLen(p.current_batch \o candidate) + ByteLen(c.base_footer)

\* a test that lets a batch of max_bytes pass
Fits_UpToMaxBytes(p, candidate, c) == Prospective(p, candidate, c) <= c.max_bytes

\* the test `< max_bytes`; the sites that test `>= max_bytes` take the other
\* branch
Fits(p, candidate, c) == Prospective(p, candidate, c) < c.max_bytes

Logged(p, candidate, c, separator, after) ==
    Append(p.log, [prospective |-> Prospective(p, candidate, c),
                   open        |-> p.has_content,
                   separator   |-> separator,
                   closed      |-> Len(after) > Len(p.batches)])

\* if current_batch_has_content: batches.append(current_batch + base_footer)
Flushed(p, c) ==
    IF p.has_content THEN Append(p.batches, p.current_batch \o c.base_footer) ELSE p.batches

\* a packer that never closes a batch before the end
AppendOrFlush_NoCheck(p, candidate, restart, c) ==
    [batches |-> p.batches, current_batch |-> p.current_batch \o candidate,
     has_content |-> TRUE, log |-> Logged(p, candidate, c, FALSE, p.batches)]

\* a packer that leaves out a candidate that is greater than max_bytes
AppendOrFlush_DropOversize(p, candidate, restart, c) ==
    IF ByteLen(candidate) > c.max_bytes THEN p
    ELSE IF Fits(p, candidate, c)
    THEN [batches |-> p.batches, current_batch |-> p.current_batch \o candidate,
          has_content |-> TRUE, log |-> Logged(p, candidate, c, FALSE, p.batches)]
    ELSE [batches |-> Flushed(p, c), current_batch |-> restart \o candidate,
          has_content |-> TRUE, log |-> Logged(p, candidate, c, FALSE, Flushed(p, c))]

\* a packer that starts a new batch with the base header only
AppendOrFlush_BaseOnly(p, candidate, restart, c) ==
    IF Fits(p, candidate, c)
    THEN [batches |-> p.batches, current_batch |-> p.current_batch \o candidate,
          has_content |-> TRUE, log |-> Logged(p, candidate, c, FALSE, p.batches)]
    ELSE [batches |-> Flushed(p, c), current_batch |-> c.base_header \o candidate,
          has_content |-> TRUE, log |-> Logged(p, candidate, c, FALSE, Flushed(p, c))]

\* the candidate is appended to the current batch when it fits; otherwise the
\* current batch is closed and a new one starts with restart, the base header
\* and the headers stated again, and the candidate
AppendOrFlush(p, candidate, restart, c) ==
    IF Fits(p, candidate, c)
    THEN [batches |-> p.batches, current_batch |-> p.current_batch \o candidate,
          has_content |-> TRUE, log |-> Logged(p, candidate, c, FALSE, p.batches)]
    ELSE [batches |-> Flushed(p, c), current_batch |-> restart \o candidate,
          has_content |-> TRUE, log |-> Logged(p, candidate, c, FALSE, Flushed(p, c))]

\* a packer that appends the header and the first line one after the other
PutFirstNews_Apart(p, header, first_news_line, restart, c) ==
    AppendOrFlush(AppendOrFlush(p, header, restart, c), first_news_line, restart, c)

\* a packer whose loop over the remaining titles starts at the first title
PutFirstNews_Again(p, header, first_news_line, restart, c) ==
    AppendOrFlush(AppendOrFlush(p, header \o first_news_line, restart, c),
                  first_news_line, restart \o header, c)

\* word_with_first_news, source_with_first_news: the header and the first
\* line are one candidate
PutFirstNews(p, header, first_news_line, restart, c) ==
    AppendOrFlush(p, header \o first_news_line, restart, c)

\* the separator between two groups is appended only when it fits
AppendIfFits(p, candidate, c) ==
    IF Fits(p, candidate, c)
    THEN [p EXCEPT !.current_batch = @ \o candidate,
                   !.log = Logged(p, candidate, c, TRUE, p.batches)]
    ELSE [p EXCEPT !.log = Logged(p, candidate, c, TRUE, p.batches)]

\* the loop over the titles of group i from the j-th on
RECURSIVE PackStatTitles(_, _, _, _, _, _)
PackStatTitles(p, i, j, stat, word_header, c) ==
    IF j > Len(stat.titles) THEN p
    ELSE PackStatTitles(
             AppendOrFlush(p, NewsLine("title", i, j, stat.titles[j], j < Len(stat.titles)),
                           c.base_header \o c.stats_header \o word_header, c),
             i, j + 1, stat, word_header, c)

\* the body of the loop over the groups
PackStat(p, i, stat_list, c) ==
    LET stat == stat_list[i]
        word_header == WordHeader(c.fmt, i, Len(stat_list), stat)
        first_news_line == IF stat.titles = <<>> THEN <<>>
                           ELSE NewsLine("title", i, 1, stat.titles[1], Len(stat.titles) > 1)
        p1 == PutFirstNews(p, word_header, first_news_line, c.base_header \o c.stats_header, c)
        p2 == PackStatTitles(p1, i, 2, stat, word_header, c)
    IN  IF i < Len(stat_list) THEN AppendIfFits(p2, Separator(c.fmt), c) ELSE p2

RECURSIVE PackStats(_, _, _, _)
PackStats(p, i, stat_list, c) ==
    IF i > Len(stat_list) THEN p ELSE PackStats(PackStat(p, i, stat_list, c), i + 1, stat_list, c)

\* the loop over the titles of source i from the j-th on; a title is
\* formatted without its source and with is_new set to False in a copy
RECURSIVE PackNewTitles(_, _, _, _, _, _)
PackNewTitles(p, i, j, source_data, restart, c) ==
    IF j > Len(source_data.titles) THEN p
    ELSE PackNewTitles(
             AppendOrFlush(p, NewsLine("new_title", i, j, source_data.titles[j], FALSE),
                           restart, c),
             i, j + 1, source_data, restart, c)

\* the body of the loop over the sources of the new titles, with the "\n"
\* appended after the last title of the source
PackSource(p, i, sources, new_header, c) ==
    LET source_data == sources[i]
        source_header == SourceHeader(c.fmt, i, source_data)
        first_news_line == IF source_data.titles = <<>> THEN <<>>
                           ELSE NewsLine("new_title", i, 1, source_data.titles[1], FALSE)
        p1 == PutFirstNews(p, source_header, first_news_line, c.base_header \o new_header, c)
        p2 == PackNewTitles(p1, i, 2, source_data,
                            c.base_header \o new_header \o source_header, c)
    IN  [p2 EXCEPT !.current_batch = @ \o NewLine]

RECURSIVE PackSources(_, _, _, _, _)
PackSources(p, i, sources, new_header, c) ==
    IF i > Len(sources) THEN p
    ELSE PackSources(PackSource(p, i, sources, new_header, c), i + 1, sources, new_header, c)

RECURSIVE PackFailed(_, _, _, _, _)
PackFailed(p, i, failed_ids, failed_header, c) ==
    IF i > Len(failed_ids) THEN p
    ELSE PackFailed(AppendOrFlush(p, FailedLine(i, failed_ids[i]),
                                  c.base_header \o failed_header, c),
                    i + 1, failed_ids, failed_header, c)

\* the function up to its last line: the list of batches with the size
\* tests made on the way
PackRun(report, fmt, upd, maxb, md) ==
    LET base_header == BaseHeader(fmt, PackTotalTitles(report.stats))
        c == [fmt          |-> fmt,
              base_header  |-> base_header,
              base_footer  |-> BaseFooter(fmt, upd),
              stats_header |-> StatsHeader(fmt, report.stats),
              max_bytes    |-> maxb]
        p0 == [batches |-> <<>>, current_batch |-> base_header, has_content |-> FALSE,
               log |-> <<>>]
        p1 == IF report.stats = <<>> THEN p0
              ELSE PackStats(AppendOrFlush(p0, c.stats_header, base_header, c),
                             1, report.stats, c)
        new_header == NewHeader(fmt, report.total_new_count)
        p2 == IF report.new_titles = <<>> THEN p1
              ELSE PackSources(AppendOrFlush(p1, new_header, base_header, c),
                               1, report.new_titles, new_header, c)
        failed_header == FailedHeader(fmt)
        p3 == IF report.failed_ids = <<>> THEN p2
              ELSE PackFailed(AppendOrFlush(p2, failed_header, base_header, c),
                              1, report.failed_ids, failed_header, c)
    IN  IF report.stats = <<>> /\ report.new_titles = <<>> /\ report.failed_ids = <<>>
        THEN [batches |-> <<base_header \o SimpleContent(md) \o c.base_footer>>, log |-> <<>>]
        ELSE [batches |-> Flushed(p3, c), log |-> p3.log]

split_content_into_batches(report, fmt, upd, maxb, md) ==
    PackRun(report, fmt, upd, maxb, md).batches

----------------------------------------------------------------------------
(* The reports packed.  A report is written down as the sequence of its    *)
(* lines: the first title of a group ("group"), a further title of the     *)
(* group ("title"), the first title of a source of the new titles          *)
(* ("source"), a further one ("new"), a failed id ("failed"), each with    *)
(* the length of its text.  The word of a group, the name of a source and  *)
(* a failed id are given by the length of their encoding.                  *)

\* the lines of a report
MaxReportLines == 4

\* the length of a formatted title or of a failed id: short, one that fits in
\* a batch of its own, and long
TextBytes == {10, 100, 300}

MaxBytesChoices == {200, 243, 400}

\* the length of the word of a group and of the name of a source
NameBytes == 2

UpdateChoices == {NoUpdate, [given |-> TRUE, remote_version |-> 5, current_version |-> 5]}

FormatTypes == {"wework", "telegram"}

PackTags == {"group", "title", "source", "new", "failed"}

SectionOf(tag) ==
    CASE tag \in {"group", "title"} -> 1
      [] tag \in {"source", "new"}  -> 2
      [] OTHER                      -> 3

\* groups first, then the sources of the new titles, then the failed ids; a
\* further title follows a title of its group or source
ValidLines(q) ==
    \A k \in DOMAIN q :
        /\ k > 1 => SectionOf(q[k - 1].tag) <= SectionOf(q[k].tag)
        /\ q[k].tag = "title" => k > 1 /\ q[k - 1].tag \in {"group", "title"}
        /\ q[k].tag = "new" => k > 1 /\ q[k - 1].tag \in {"source", "new"}

\* prepare_report_data: the report with the lines q added to report r
RECURSIVE ReportOf(_, _)
ReportOf(q, r) ==
    IF q = <<>> THEN r
    ELSE LET line == Head(q)
             title_data == [bytes |-> line.bytes]
             n == Len(r.stats)
             m == Len(r.new_titles)
         IN  ReportOf(Tail(q),
                CASE line.tag = "group" ->
                       [r EXCEPT !.stats = Append(@, [word |-> NameBytes, count |-> 1,
                                                      titles |-> <<title_data>>])]
                  [] line.tag = "title" ->
                       [r EXCEPT !.stats[n].count = @ + 1,
                                 !.stats[n].titles = Append(@, title_data)]
                  [] line.tag = "source" ->
                       [r EXCEPT !.new_titles = Append(@, [source_name |-> NameBytes,
                                                           titles |-> <<title_data>>]),
                                 !.total_new_count = @ + 1]
                  [] line.tag = "new" ->
                       [r EXCEPT !.new_titles[m].titles = Append(@, title_data),
                                 !.total_new_count = @ + 1]
                  [] OTHER ->
                       [r EXCEPT !.failed_ids = Append(@, line.bytes)])

Reports ==
    {ReportOf(q, EmptyReport) :
        q \in {x \in UNION {[1..n -> [tag : PackTags, bytes : TextBytes]] :
                              n \in 0..MaxReportLines} : ValidLines(x)}}

InitPack ==
    /\ files = <<>>
    /\ pc = "report"
    /\ idx = 0
    /\ platform = NoFilter
    /\ all_results = EmptyDict
    /\ title_info = EmptyDict
    /\ new_titles = EmptyDict
    /\ word_groups = <<>>
    /\ filter_words = <<>>
    /\ title = <<>>
    /\ matched = FALSE
    /\ stats = <<>>
    /\ total_titles = 0
    /\ rule_file = <<>>
    /\ weighed = <<>>
    /\ report_data \in Reports
    /\ mode \in (IF report_data = EmptyReport THEN Modes ELSE {"daily"})
    /\ format_type \in FormatTypes
    /\ update_info \in UpdateChoices
    /\ max_bytes \in MaxBytesChoices
    /\ batches = <<>>
    /\ decisions = <<>>
    /\ FileAndPushInitial

\* send_to_wework, send_to_telegram: the report is split into batches
Split ==
    /\ pc = "report"
    /\ \E run \in {PackRun(report_data, format_type, update_info, max_bytes, mode)} :
          /\ batches' = run.batches
          /\ decisions' = run.log
    /\ pc' = "packed"
    /\ UNCHANGED <<files, idx, platform, all_results, title_info, new_titles, configVars,
                   matchVars, countVars, loadVars, weightVars, report_data, format_type,
                   update_info, max_bytes, fileVars, pushVars>>

NextPack == Split

SpecPack == InitPack /\ [][NextPack]_vars

----------------------------------------------------------------------------
(* save_titles_to_file and parse_file_titles.  The file is the sequence of *)
(* its lines, a line being a sequence of characters; content.split("\n\n") *)
(* cuts it at the empty lines, as in load_frequency_words.  A dict that is *)
(* iterated is the sequence of its items, [id, title_data] for the sources *)
(* and [title, ranks, url, mobileUrl] for the titles of a source.          *)

DigitChars == <<"0", "1", "2", "3", "4", "5", "6", "7", "8", "9">>

\* str(n) of a natural number
RECURSIVE Str(_)
Str(n) ==
    IF n < 10 THEN <<DigitChars[n + 1]>>
    ELSE Str(n \div 10) \o <<DigitChars[(n % 10) + 1]>>

\* s.isdigit()
IsDigit(str) == str /= <<>> /\ \A i \in DOMAIN str : str[i] \in Range(DigitChars)

\* int(s) of a string of digits
RECURSIVE IntOf(_)
IntOf(str) ==
    IF str = <<>> THEN 0
    ELSE 10 * IntOf(SubSeq(str, 1, Len(str) - 1))
         + (CHOOSE d \in 0..9 : DigitChars[d + 1] = str[Len(str)])

\* the marks of the file format: " | ", ". ", " [URL:", " [MOBILE:" and the
\* line "==== 以下ID请求失败 ====", whose text is written as the one letter F
BarMark == <<" ", "|", " ">>

RankMark == <<".", " ">>

UrlMark == <<" ", "[", "U", "R", "L", ":">>

MobileMark == <<" ", "[", "M", "O", "B", "I", "L", "E", ":">>

FailedMark == <<"=", "=", "=", "=", " ", "F", " ", "=", "=", "=", "=">>

\* the start of the first part of str that is sub, 0 when there is none
Find(sub, str) ==
    IF Contains(sub, str)
    THEN Min({i \in 1..(Len(str) - Len(sub) + 1) : SubSeq(str, i, i + Len(sub) - 1) = sub})
    ELSE 0

\* the start of the last part of str that is sub, 0 when there is none
RFind(sub, str) ==
    IF Contains(sub, str)
    THEN Max({i \in 1..(Len(str) - Len(sub) + 1) : SubSeq(str, i, i + Len(sub) - 1) = sub})
    ELSE 0

\* str[:k - 1] and str[k + n - 1:], the parts before and after the n
\* characters that start at k
Before(str, k) == SubSeq(str, 1, k - 1)

After(str, k, n) == SubSeq(str, k + n, Len(str))

\* clean_title: line ends become blanks, a run of blanks becomes one blank,
\* and the blanks at both ends are removed
RECURSIVE CollapseBlanks(_)
CollapseBlanks(str) ==
    IF Len(str) < 2 THEN str
    ELSE IF str[1] = " " /\ str[2] = " " THEN CollapseBlanks(Tail(str))
    ELSE <<str[1]>> \o CollapseBlanks(Tail(str))

clean_title(ttl) == Strip(CollapseBlanks(ttl))

\* rank = ranks[0] if ranks else 1
FirstRank(ranks) == IF ranks = <<>> THEN 1 ELSE ranks[1]

\* sorted_titles.sort(key=lambda x: x[0]): a stable sort by rank
RECURSIVE InsertByRank(_, _)
InsertByRank(x, q) ==
    IF q = <<>> THEN <<x>>
    ELSE IF x.rank < Head(q).rank THEN <<x>> \o q
    ELSE <<Head(q)>> \o InsertByRank(x, Tail(q))

RECURSIVE SortedByRank(_)
SortedByRank(q) ==
    IF q = <<>> THEN <<>>
    ELSE InsertByRank(q[Len(q)], SortedByRank(SubSeq(q, 1, Len(q) - 1)))

\* (rank, cleaned_title, url, mobile_url) of the items of title_data
SortedTitles(title_data) ==
    SortedByRank([i \in DOMAIN title_data |->
                     [rank          |-> FirstRank(title_data[i].ranks),
                      cleaned_title |-> clean_title(title_data[i].title),
                      url           |-> title_data[i].url,
                      mobile_url    |-> title_data[i].mobileUrl]])

\* line = f"{rank}. {cleaned_title}", then " [URL:{url}]" and
\* " [MOBILE:{mobile_url}]" for a url that is not empty
TitleLine(x) ==
    Str(x.rank) \o RankMark \o x.cleaned_title
    \o (IF x.url /= <<>> THEN UrlMark \o x.url \o <<"]">> ELSE <<>>)
    \o (IF x.mobile_url /= <<>> THEN MobileMark \o x.mobile_url \o <<"]">> ELSE <<>>)

\* "id | name" for a source with a name that is not its id, "id" otherwise
HeaderLine(id_value, id_to_name) ==
    IF id_value \in DOMAIN id_to_name /\ id_to_name[id_value] /= <<>>
       /\ id_to_name[id_value] /= id_value
    THEN id_value \o BarMark \o id_to_name[id_value]
    ELSE id_value

\* the lines written for one source, the empty line at the end included
SectionOfSource(item, id_to_name) ==
    LET sorted_titles == SortedTitles(item.title_data)
    IN  <<HeaderLine(item.id, id_to_name)>>
        \o [i \in DOMAIN sorted_titles |-> TitleLine(sorted_titles[i])]
        \o << <<>> >>

RECURSIVE SectionsOfSources(_, _)
SectionsOfSources(results, id_to_name) ==
    IF results = <<>> THEN <<>>
    ELSE SectionOfSource(Head(results), id_to_name)
         \o SectionsOfSources(Tail(results), id_to_name)

save_titles_to_file(results, id_to_name, failed_ids) ==
    SectionsOfSources(results, id_to_name)
    \o (IF failed_ids /= <<>> THEN <<FailedMark>> \o failed_ids ELSE <<>>)

\* section.strip().split("\n"): strip() removes the lines of blanks at both
\* ends of the section; the blanks at the ends of a line are removed where
\* the line is read
RECURSIVE DropBlankLines(_)
DropBlankLines(section) ==
    IF section /= <<>> /\ Strip(Head(section)) = <<>> THEN DropBlankLines(Tail(section))
    ELSE section

RECURSIVE DropBlankLinesAtEnd(_)
DropBlankLinesAtEnd(section) ==
    IF section /= <<>> /\ Strip(section[Len(section)]) = <<>>
    THEN DropBlankLinesAtEnd(SubSeq(section, 1, Len(section) - 1))
    ELSE section

StrippedLines(section) == DropBlankLinesAtEnd(DropBlankLines(section))

\* the suffix " [MARK:value]" of title_part: title_part.rsplit(mark, 1) when
\* the mark is in it, the value being taken when the part after the mark
\* ends with "]"
CutSuffix(title_part, mark) ==
    LET k == RFind(mark, title_part)
        part == After(title_part, k, Len(mark))
    IN  IF k = 0 THEN [title_part |-> title_part, value |-> <<>>]
        ELSE [title_part |-> Before(title_part, k),
              value |-> IF part /= <<>> /\ part[Len(part)] = "]"
                        THEN SubSeq(part, 1, Len(part) - 1) ELSE <<>>]

\* one title line read: [title, ranks, url, mobileUrl]
ParseTitleLine(line) ==
    LET stripped == Strip(line)
        k == Find(RankMark, stripped)
        has_rank == k > 0 /\ IsDigit(Before(stripped, k))
        ranks == IF has_rank THEN <<IntOf(Before(stripped, k))>> ELSE <<1>>
        title_part == IF has_rank THEN After(stripped, k, Len(RankMark)) ELSE stripped
        mobile == CutSuffix(title_part, MobileMark)
        url == CutSuffix(mobile.title_part, UrlMark)
    IN  [title     |-> clean_title(Strip(url.title_part)),
         ranks     |-> ranks,
         url       |-> url.value,
         mobileUrl |-> mobile.value]

\* the loop over lines[1:]: a later line with the title of an earlier one
\* takes its place
RECURSIVE ParseTitleLines(_, _)
ParseTitleLines(lines, titles) ==
    IF lines = <<>> THEN titles
    ELSE IF Strip(Head(lines)) = <<>> THEN ParseTitleLines(Tail(lines), titles)
    ELSE LET x == ParseTitleLine(Head(lines))
         IN  ParseTitleLines(Tail(lines),
                             Put(titles, x.title,
                                 [ranks |-> x.ranks, url |-> x.url, mobileUrl |-> x.mobileUrl]))

\* the header line read: [source_id, name]
ParseHeaderLine(line) ==
    LET header_line == Strip(line)
        k == Find(BarMark, header_line)
    IN  IF k > 0
        THEN [source_id |-> Strip(Before(header_line, k)),
              name      |-> Strip(After(header_line, k, Len(BarMark)))]
        ELSE [source_id |-> header_line, name |-> header_line]

\* the body of the loop over the sections
ParseSection(section, st) ==
    LET lines == StrippedLines(section)
        header == ParseHeaderLine(lines[1])
    IN  IF lines = <<>> \/ \E i \in DOMAIN section : Contains(FailedMark, section[i])
        THEN st
        ELSE IF Len(lines) < 2 THEN st
        ELSE [titles_by_id |-> Put(st.titles_by_id, header.source_id,
                                   ParseTitleLines(Tail(lines), EmptyDict)),
              id_to_name   |-> Put(st.id_to_name, header.source_id, header.name)]

RECURSIVE ParseSections(_, _)
ParseSections(sections, st) ==
    IF sections = <<>> THEN st
    ELSE ParseSections(Tail(sections), ParseSection(Head(sections), st))

parse_file_titles(lines) == ParseSections(SplitGroups(lines, <<>>, <<>>), NoParse)

\* the crawls written: the source "s" with one or two titles, after it the
\* source "t" with one title or not at all
MaxFileTitles == 2

\* "a", "b", "2. a" and "a [URL:b]"
FileTitles == {<<"a">>, <<"b">>, <<"2", ".", " ", "a">>,
               <<"a", " ", "[", "U", "R", "L", ":", "b", "]">>}

FileRanks == {1, 12}

FileUrls == {<<>>, <<"u">>}

FileMobileUrls == {<<>>, <<"m">>}

FileItems == [title : FileTitles, ranks : {<<r>> : r \in FileRanks}, url : FileUrls,
              mobileUrl : FileMobileUrls]

\* the items of a dict of titles: no title twice
FileTitleData ==
    {q \in UNION {[1..n -> FileItems] : n \in 1..MaxFileTitles} :
        \A i, j \in DOMAIN q : i /= j => q[i].title /= q[j].title}

\* id_to_name.get("s"): no name, the id itself, or the name "N"
FileNames == {EmptyDict, [k \in {<<"s">>} |-> <<"s">>], [k \in {<<"s">>} |-> <<"N">>]}

SecondSources ==
    {<<>>,
     <<[id |-> <<"t">>,
        title_data |-> <<[title |-> <<"a">>, ranks |-> <<1>>, url |-> <<"u">>,
                          mobileUrl |-> <<>>]>>]>>}

Crawls ==
    {[results    |-> <<[id |-> <<"s">>, title_data |-> title_data]>> \o second,
      id_to_name |-> names,
      failed_ids |-> failed] :
        title_data \in FileTitleData, second \in SecondSources, names \in FileNames,
        failed \in {<<>>, << <<"f">> >>}}

InitFile ==
    /\ files = <<>>
    /\ pc = "crawl_done"
    /\ idx = 0
    /\ platform = NoFilter
    /\ all_results = EmptyDict
    /\ title_info = EmptyDict
    /\ new_titles = EmptyDict
    /\ word_groups = <<>>
    /\ filter_words = <<>>
    /\ title = <<>>
    /\ matched = FALSE
    /\ mode = "daily"
    /\ stats = <<>>
    /\ total_titles = 0
    /\ rule_file = <<>>
    /\ weighed = <<>>
    /\ report_data = EmptyReport
    /\ format_type = "wework"
    /\ update_info = NoUpdate
    /\ max_bytes = 0
    /\ batches = <<>>
    /\ decisions = <<>>
    /\ crawl \in Crawls
    /\ file_text = <<>>
    /\ parsed = NoParse
    /\ push_conf = NoPushConf
    /\ clock = [day |-> 1, hour |-> 0, minute |-> 0]
    /\ push_files = EmptyDict
    /\ push_calls = <<>>

\* the crawl is written to the snapshot file
SaveFile ==
    /\ pc = "crawl_done"
    /\ file_text' = save_titles_to_file(crawl.results, crawl.id_to_name, crawl.failed_ids)
    /\ pc' = "file_written"
    /\ UNCHANGED <<files, idx, platform, all_results, title_info, new_titles, configVars,
                   matchVars, countVars, loadVars, weightVars, packVars, crawl, parsed,
                   pushVars>>

\* the snapshot file is read again
ParseFile ==
    /\ pc = "file_written"
    /\ parsed' = parse_file_titles(file_text)
    /\ pc' = "file_parsed"
    /\ UNCHANGED <<files, idx, platform, all_results, title_info, new_titles, configVars,
                   matchVars, countVars, loadVars, weightVars, packVars, crawl, file_text,
                   pushVars>>

NextFile == SaveFile \/ ParseFile

SpecFile == InitFile /\ [][NextFile]_vars

----------------------------------------------------------------------------
(* PushRecordManager and send_to_webhooks.  The record directory is a dict  *)
(* from the day of a record file to what the file holds; the clock is the   *)
(* Beijing time, advanced by the environment between the calls.             *)

\* the calls of send_to_webhooks that are followed
MaxCalls == 3

\* the days the clock runs through, and the times of day it shows
Days == 1..2

ClockTimes == <<[hour |-> 8, minute |-> 0], [hour |-> 10, minute |-> 30],
                [hour |-> 20, minute |-> 0]>>

\* the channels in the order in which send_to_webhooks sends to them
ChannelSeq == <<"feishu", "dingtalk", "wework", "telegram">>

ReportTypes == {"daily", "incremental"}

\* a record file that json.load does not read
Corrupt == [readable |-> FALSE]

\* a record file holding a JSON object with the given keys
Json(obj) == [readable |-> TRUE, obj |-> obj]

\* now.strftime("%H:%M")
StrfHM(now) ==
    (IF now.hour < 10 THEN <<"0">> ELSE <<>>) \o Str(now.hour) \o <<":">>
    \o (IF now.minute < 10 THEN <<"0">> ELSE <<>>) \o Str(now.minute)

\* the code points of the characters of a time, in increasing order
CharOrder == DigitChars \o <<":">>

Ord(c) == CHOOSE i \in DOMAIN CharOrder : CharOrder[i] = c

\* a <= b of two str
RECURSIVE StrLeq(_, _)
StrLeq(a, b) ==
    IF a = <<>> THEN TRUE
    ELSE IF b = <<>> THEN FALSE
    ELSE IF Head(a) = Head(b) THEN StrLeq(Tail(a), Tail(b))
    ELSE Ord(Head(a)) < Ord(Head(b))

\* start_time <= current_time <= end_time
is_in_time_range(now, start_time, end_time) ==
    StrLeq(start_time, StrfHM(now)) /\ StrLeq(StrfHM(now), end_time)

\* the record files that are left: (current_time - file_date).days > retention_days
\* unlinks the file
cleanup_old_records(fs, now, retention_days) ==
    [d \in {x \in DOMAIN fs : ~(now.day - x > retention_days)} |-> fs[d]]

\* PushRecordManager(): the record directory after __init__
PushRecordManager(fs, now, conf) == cleanup_old_records(fs, now, conf.retention_days)

has_pushed_today(fs, now) ==
    IF now.day \notin DOMAIN fs THEN FALSE
    ELSE IF ~fs[now.day].readable THEN FALSE
    ELSE Get(fs[now.day].obj, "pushed", FALSE)

record_push(fs, now, report_type) ==
    Put(fs, now.day, Json([pushed |-> TRUE,
                           push_time |-> <<now.day, StrfHM(now)>>,
                           report_type |-> report_type]))

\* a run of send_to_webhooks that records the push when every channel succeeded
AnySucceeded_All(results) ==
    DOMAIN results /= {} /\ \A ch \in DOMAIN results : results[ch]

\* any(results.values())
AnySucceeded(results) == \E ch \in DOMAIN results : results[ch]

\* the silent mode lets the call through
Passes(fs, now, conf) ==
    ~conf.enabled
    \/ /\ is_in_time_range(now, conf.start, conf.end)
       /\ ~(conf.once_per_day /\ has_pushed_today(fs, now))

\* send_to_webhooks: the results returned and the record directory left, given
\* what each configured channel answers
send_to_webhooks(fs, now, conf, answers, report_type) ==
    LET opened == IF conf.enabled THEN PushRecordManager(fs, now, conf) ELSE fs
    IN  IF ~Passes(opened, now, conf)
        THEN [results |-> EmptyDict, sent |-> <<>>, files |-> opened]
        ELSE LET results == [ch \in conf.channels |-> answers[ch]]
                 sent == SelectSeq(ChannelSeq, LAMBDA ch : ch \in conf.channels)
             IN  [results |-> results,
                  sent |-> sent,
                  files |-> IF conf.enabled /\ conf.once_per_day /\ AnySucceeded(results)
                            THEN record_push(PushRecordManager(opened, now, conf), now,
                                             report_type)
                            ELSE opened]

TimeRanges == {[start |-> <<"0", "9", ":", "0", "0">>, end |-> <<"1", "8", ":", "0", "0">>],
               [start |-> <<"9", ":", "0", "0">>, end |-> <<"1", "8", ":", "0", "0">>]}

ChannelChoices == {{}, {"wework"}, {"feishu", "telegram"}}

PushConfs ==
    {[enabled |-> e, once_per_day |-> o, start |-> r.start, end |-> r.end,
      retention_days |-> k, channels |-> chs] :
        e \in BOOLEAN, o \in BOOLEAN, r \in TimeRanges, k \in {0, 1}, chs \in ChannelChoices}

\* the record directory a run can find: empty, a record of the day before, a
\* record of today left by an earlier run, or a file of today that is not JSON
RecordDirs ==
    {EmptyDict,
     [d \in {0} |-> Json([pushed |-> TRUE, push_time |-> <<0, <<"1", "0", ":", "3", "0">>>>,
                          report_type |-> "daily"])],
     [d \in {1} |-> Json([pushed |-> TRUE, push_time |-> <<1, <<"0", "7", ":", "0", "0">>>>,
                          report_type |-> "daily"])],
     [d \in {1} |-> Corrupt]}

InitPush ==
    /\ files = <<>>
    /\ pc = "push"
    /\ idx = 0
    /\ platform = NoFilter
    /\ all_results = EmptyDict
    /\ title_info = EmptyDict
    /\ new_titles = EmptyDict
    /\ word_groups = <<>>
    /\ filter_words = <<>>
    /\ title = <<>>
    /\ matched = FALSE
    /\ mode = "daily"
    /\ stats = <<>>
    /\ total_titles = 0
    /\ rule_file = <<>>
    /\ weighed = <<>>
    /\ report_data = EmptyReport
    /\ format_type = "wework"
    /\ update_info = NoUpdate
    /\ max_bytes = 0
    /\ batches = <<>>
    /\ decisions = <<>>
    /\ crawl = NoCrawl
    /\ file_text = <<>>
    /\ parsed = NoParse
    /\ push_conf \in PushConfs
    /\ clock = [day |-> 1, hour |-> ClockTimes[1].hour, minute |-> ClockTimes[1].minute]
    /\ push_files \in RecordDirs
    /\ push_calls = <<>>

notPushVars == <<aggVars, configVars, matchVars, countVars, loadVars, weightVars, packVars,
                 fileVars>>

\* one call of send_to_webhooks, with the answers of the channels
SendToWebhooks(answers, report_type) ==
    /\ pc = "push"
    /\ Len(push_calls) < MaxCalls
    /\ \E run \in {send_to_webhooks(push_files, clock, push_conf, answers, report_type)} :
          /\ push_files' = run.files
          /\ push_calls' = Append(push_calls,
                                  [day |-> clock.day,
                                   in_range |-> is_in_time_range(clock, push_conf.start,
                                                                 push_conf.end),
                                   results |-> run.results,
                                   sent |-> run.sent,
                                   recorded |-> has_pushed_today(run.files, clock)])
    /\ UNCHANGED <<notPushVars, push_conf, clock>>

\* the time of day moves on
LaterToday ==
    /\ pc = "push"
    /\ \E i \in 1..(Len(ClockTimes) - 1) :
          /\ clock.hour = ClockTimes[i].hour /\ clock.minute = ClockTimes[i].minute
          /\ clock' = [clock EXCEPT !.hour = ClockTimes[i + 1].hour,
                                    !.minute = ClockTimes[i + 1].minute]
    /\ UNCHANGED <<notPushVars, push_conf, push_files, push_calls>>

\* midnight passes
NextDay ==
    /\ pc = "push"
    /\ clock.day + 1 \in Days
    /\ clock' = [day |-> clock.day + 1, hour |-> ClockTimes[1].hour,
                 minute |-> ClockTimes[1].minute]
    /\ UNCHANGED <<notPushVars, push_conf, push_files, push_calls>>

NextPush ==
    \/ \E chs \in {push_conf.channels} : \E answers \in [chs -> BOOLEAN] :
          \E report_type \in ReportTypes : SendToWebhooks(answers, report_type)
    \/ LaterToday
    \/ NextDay

SpecPush == InitPush /\ [][NextPush]_vars

----------------------------------------------------------------------------
(* Properties of the aggregation *)

\* the merged files in which title t appears under source s
Containing(s, t) ==
    {i \in 1..idx : s \in DOMAIN files[i].data /\ t \in DOMAIN files[i].data[s]}

Records == {<<s, t>> \in Sources \X AggTitles :
               s \in DOMAIN title_info /\ t \in DOMAIN title_info[s]}

\* C1: after merging the day's snapshots in order, the count of every
\* TitleRecord is the number of merged snapshots in which the title appeared
\* under the record's source id.
CountIsNumberOfSnapshots ==
    /\ \A s \in DOMAIN title_info : s \in Sources /\ DOMAIN title_info[s] \subseteq AggTitles
    /\ \A r \in Records :
          title_info[r[1]][r[2]].count = Cardinality(Containing(r[1], r[2]))

CountWitness ==
    /\ idx = 3
    /\ \E r \in Records : title_info[r[1]][r[2]].count = 3
    /\ \E r \in Records : title_info[r[1]][r[2]].count = 1
    /\ \E r \in Records : title_info[r[1]][r[2]].count = 2

\* C2: merging is not idempotent.  When one snapshot is merged and then
\* merged again, each of its titles has count 2, and its ranks are those it
\* had after the first merge.
RemergeCountsAgain ==
    (Len(files) = 2 /\ files[1] = files[2]) =>
        LET once == MergeFile(files[1], platform, EmptyState)
        IN  /\ DOMAIN title_info = DOMAIN files[1].data
            /\ \A s \in DOMAIN title_info :
                  /\ DOMAIN title_info[s] = DOMAIN files[1].data[s]
                  /\ \A t \in DOMAIN title_info[s] :
                        /\ title_info[s][t].count = 2
                        /\ once.info[s][t].count = 1
                        /\ title_info[s][t].ranks = once.info[s][t].ranks
                        /\ all_results[s][t].ranks = once.res[s][t].ranks

RemergeWitness ==
    /\ Len(files) = 2
    /\ files[1] = files[2]
    /\ \E s \in DOMAIN title_info : \E t \in DOMAIN title_info[s] :
          title_info[s][t].count = 2 /\ title_info[s][t].ranks = <<2>>

Perms(n) == {p \in [1..n -> 1..n] : \A i, j \in 1..n : i /= j => p[i] /= p[j]}

Permuted(fs, p) == [i \in 1..Len(fs) |-> fs[p[i]]]

Merged == SubSeq(files, 1, idx)

\* no snapshot is in the log twice
DistinctSnapshots == \A i, j \in DOMAIN files : i /= j => files[i].label /= files[j].label

\* C3: for the same snapshots merged in any other order, every title has the
\* same set of ranks and the same count.
RanksAndCountOrderIndependent ==
    DistinctSnapshots =>
    \A p \in Perms(idx) :
        \A other \in {ReadFiles(Permuted(Merged, p), platform, EmptyState).info} :
            /\ DOMAIN other = DOMAIN title_info
            /\ \A s \in DOMAIN other :
                  /\ DOMAIN other[s] = DOMAIN title_info[s]
                  /\ \A t \in DOMAIN other[s] :
                        /\ Range(other[s][t].ranks) = Range(title_info[s][t].ranks)
                        /\ other[s][t].count = title_info[s][t].count

\* three snapshots, and an order of them that gives a title other times and
\* another list of ranks than the order merged
OrderWitness ==
    /\ idx = 3
    /\ DistinctSnapshots
    /\ \E p \in Perms(3) :
          \E other \in {ReadFiles(Permuted(Merged, p), platform, EmptyState).info} :
              \E r \in Records :
                 /\ other[r[1]][r[2]].ranks /= title_info[r[1]][r[2]].ranks
                 /\ other[r[1]][r[2]].first_time /= title_info[r[1]][r[2]].first_time
                 /\ title_info[r[1]][r[2]].count = 3

KeysKept(before, after) ==
    \A s \in DOMAIN before : s \in DOMAIN after /\ DOMAIN before[s] \subseteq DOMAIN after[s]

\* C4: within the aggregation of one day, a merge step removes no
\* (source id, title): what is in the accumulated records before the step is
\* in them after it.
MergeOnlyGrows ==
    [][pc = "reading" => KeysKept(all_results, all_results') /\ KeysKept(title_info, title_info')]_vars

\* the last merged file has a source already known without one of its titles
GrowWitness ==
    /\ idx >= 2
    /\ \E r \in Records :
          /\ r[1] \in DOMAIN files[idx].data
          /\ r[2] \notin DOMAIN files[idx].data[r[1]]
          /\ r[2] \in DOMAIN all_results[r[1]]

\* C5: with the snapshots merged in the order of their labels, first_time is
\* the label of the earliest merged snapshot with the title, last_time that of
\* the latest, first_time <= last_time, and no merge step changes the
\* first_time of a record.
FirstAndLastTimes ==
    /\ [](\A r \in Records :
            LET rec == title_info[r[1]][r[2]]
                labels == {files[i].label : i \in Containing(r[1], r[2])}
            IN  /\ rec.first_time = Min(labels)
                /\ rec.last_time = Max(labels)
                /\ rec.first_time <= rec.last_time)
    /\ [][pc = "reading" =>
            \A r \in Records : title_info'[r[1]][r[2]].first_time
                                  = title_info[r[1]][r[2]].first_time]_vars

TimesWitness ==
    /\ idx = 3
    /\ \E r \in Records :
          /\ title_info[r[1]][r[2]].first_time = 1
          /\ title_info[r[1]][r[2]].last_time = 3
          /\ title_info[r[1]][r[2]].count = 2
    /\ \E r \in Records : title_info[r[1]][r[2]].first_time = 2

----------------------------------------------------------------------------
(* Properties of the detection of new titles *)

Allowed(s) == ~platform.given \/ s \in platform.ids

Latest == files[Len(files)]

\* the titles of the latest file under s that no earlier file has under s
ExpectedNew(s) ==
    IF Allowed(s) /\ s \in DOMAIN Latest.data
    THEN {t \in DOMAIN Latest.data[s] :
             \A i \in 1..(Len(files) - 1) :
                 ~(s \in DOMAIN files[i].data /\ t \in DOMAIN files[i].data[s])}
    ELSE {}

\* C6: detect_latest_new_titles returns, per source id, exactly the titles of
\* the last snapshot that are in none of the earlier snapshots under that
\* source id (restricted to current_platform_ids); with fewer than two
\* snapshots it returns nothing.
NewTitlesAreLatestMinusEarlier ==
    pc /= "crawled" =>
        IF Len(files) < 2 THEN new_titles = EmptyDict
        ELSE /\ DOMAIN new_titles \subseteq Sources
             /\ \A s \in Sources :
                   /\ ExpectedNew(s) = (IF s \in DOMAIN new_titles
                                        THEN DOMAIN new_titles[s] ELSE {})
                   /\ s \in DOMAIN new_titles =>
                         \A t \in DOMAIN new_titles[s] :
                             new_titles[s][t] = Latest.data[s][t]

\* three files; a title of the latest file is new, another is in the first
\* file but not in the second, and a source of the latest file is filtered out
DetectWitness ==
    /\ pc = "reading"
    /\ Len(files) = 3
    /\ platform.given
    /\ "s2" \in DOMAIN Latest.data
    /\ \E s \in DOMAIN new_titles : \E t \in DOMAIN Latest.data[s] :
          /\ t \notin DOMAIN new_titles[s]
          /\ s \in DOMAIN files[1].data /\ t \in DOMAIN files[1].data[s]
          /\ ~(s \in DOMAIN files[2].data /\ t \in DOMAIN files[2].data[s])

----------------------------------------------------------------------------
(* Properties of the matching and of the count *)

\* term is a substring of ttl, letter case aside
IsSubstringCI(term, ttl) ==
    \E i \in 0..(Len(ttl) - Len(term)) :
        \A k \in 1..Len(term) : LowerChar(ttl[i + k]) = LowerChar(term[k])

\* the conditions of a group on a title
GroupHolds(g, ttl) ==
    /\ \A i \in DOMAIN g.required : IsSubstringCI(g.required[i], ttl)
    /\ g.normal = <<>> \/ \E i \in DOMAIN g.normal : IsSubstringCI(g.normal[i], ttl)

HasFilterWord(ttl) == \E i \in DOMAIN filter_words : IsSubstringCI(filter_words[i], ttl)

HoldingGroups(ttl) == {k \in DOMAIN word_groups : GroupHolds(word_groups[k], ttl)}

\* the titles given to the count of the state, as (source id, title) pairs
Processed ==
    ResultsToProcess(all_results, title_info, new_titles, mode, is_first_crawl_today(files))

ProcessedPairs == UNION {{<<s, t>> : t \in DOMAIN Processed[s]} : s \in DOMAIN Processed}

\* the places of stats: <<i, j>> is the j-th title of the i-th Stat
Places == UNION {{<<i, j>> : j \in DOMAIN stats[i].titles} : i \in DOMAIN stats}

ViewAt(pl) == stats[pl[1]].titles[pl[2]]

\* the places that hold title t of source s (a source is named by its id)
PlacesOf(s, t) == {pl \in Places : ViewAt(pl).source_name = s /\ ViewAt(pl).title = t}

\* C7: without keyword groups every title matches, whatever the filter words,
\* and the count puts every processed title in the one Stat of the synthetic
\* group.
NoGroupsTakeEveryTitle ==
    word_groups = <<>> =>
        /\ \A t \in AggTitles : matches_word_groups(t, word_groups, filter_words)
        /\ pc = "counted" =>
              /\ Len(stats) = 1
              /\ stats[1].word = AllNewsKey
              /\ stats[1].count = Cardinality(ProcessedPairs)
              /\ Len(stats[1].titles) = Cardinality(ProcessedPairs)
              /\ \A pr \in ProcessedPairs : Cardinality(PlacesOf(pr[1], pr[2])) = 1

NoGroupsWitness ==
    /\ pc = "counted"
    /\ word_groups = <<>>
    /\ filter_words /= <<>>
    /\ Cardinality(ProcessedPairs) >= 3
    /\ \E pl \in Places : HasFilterWord(ViewAt(pl).title)

\* C8: with a keyword group configured, a title with a filter word in it is
\* rejected by matches_word_groups and is in no Stat, also when a group's
\* required and normal terms hold for it.
FilterWordRejects ==
    word_groups /= <<>> =>
        /\ \A t \in AggTitles :
              HasFilterWord(t) => ~matches_word_groups(t, word_groups, filter_words)
        /\ pc = "counted" => \A pl \in Places : ~HasFilterWord(ViewAt(pl).title)

FilterWitness ==
    /\ pc = "counted"
    /\ word_groups /= <<>>
    /\ Places /= {}
    /\ \E pr \in ProcessedPairs : HasFilterWord(pr[2]) /\ HoldingGroups(pr[2]) /= {}

ScenarioC == <<Group(<<TermAI>>, <<TermC, TermG>>)>>

\* C9: a title without filter word is matched iff for some group all the
\* required terms are substrings of it, letter case aside, and, when the group
\* has normal terms, so is one of them.  With required = [AI] and normal =
\* [C, G]: a title with AI and C matches, one with AI only does not, one with
\* G but no AI does not.
GroupMatchesIff ==
    pc = "matched" =>
        /\ (word_groups /= <<>> /\ ~HasFilterWord(title)) =>
              (matched <=> HoldingGroups(title) /= {})
        /\ (word_groups = ScenarioC /\ title = <<"a", "I", "c">>) => matched
        /\ (word_groups = ScenarioC /\ title = <<"a", "I">>) => ~matched
        /\ (word_groups = ScenarioC /\ title = <<"g", "c", "I">>) => ~matched

\* two required terms of which the title has one only, and a normal term it has
GroupMatchWitness ==
    /\ pc = "matched"
    /\ word_groups = <<Group(<<TermAI, TermG>>, <<TermC>>)>>
    /\ title = <<"a", "I", "c">>
    /\ ~matched

\* the key of the first group, in the order declared, whose conditions hold
FirstHoldingKey(ttl) ==
    IF word_groups = <<>> THEN AllNewsKey
    ELSE word_groups[Min(HoldingGroups(ttl))].group_key

Accepted(ttl) == word_groups = <<>> \/ (~HasFilterWord(ttl) /\ HoldingGroups(ttl) /= {})

\* C10: the count puts every matched (source id, title) in one Stat, once:
\* the Stat of the first group in the order declared whose conditions hold.
MatchedTitleInFirstGroupOnly ==
    pc = "counted" =>
        \A pr \in ProcessedPairs :
            Accepted(pr[2]) =>
                /\ Cardinality(PlacesOf(pr[1], pr[2])) = 1
                /\ \A pl \in PlacesOf(pr[1], pr[2]) :
                      stats[pl[1]].word = FirstHoldingKey(pr[2])

\* a title for which two groups with different keys hold
FirstGroupWitness ==
    /\ pc = "counted"
    /\ \E pr \in ProcessedPairs :
          /\ Accepted(pr[2])
          /\ \E k \in HoldingGroups(pr[2]) :
                word_groups[k].group_key /= FirstHoldingKey(pr[2])

----------------------------------------------------------------------------
(* Properties of the rule loader *)

\* the terms of the lines of the rule file that start with "!", blanks
\* around the line aside, in the order of the file
BangTerms ==
    LET stripped == [i \in DOMAIN rule_file |-> Strip(rule_file[i])]
        bang == SelectSeq(stripped, LAMBDA word : word /= <<>> /\ Head(word) = "!")
    IN  [i \in DOMAIN bang |-> Tail(bang[i])]

\* the number of groups of the rule file that hold a required or a normal term
TermGroups ==
    LET groups == SplitGroups(rule_file, <<>>, <<>>)
    IN  Cardinality({k \in DOMAIN groups :
            \E i \in DOMAIN groups[k] :
                Strip(groups[k][i]) /= <<>> /\ Head(Strip(groups[k][i])) /= "!"})

\* C11: every term written with "!" in the rule file is returned in
\* filter_words, in whichever group it stands, also in a group without
\* required and normal terms, which is not returned in the list of groups.
BangTermsAreGlobalFilterWords ==
    pc = "rules_loaded" =>
        /\ filter_words = BangTerms
        /\ Len(word_groups) = TermGroups

\* a group of one "!" term only, and a group with a normal term
BangWitness ==
    /\ pc = "rules_loaded"
    /\ rule_file = << <<"!", "X">>, <<>>, <<"c">>, <<" ", "!", "G", " ">> >>
    /\ Len(word_groups) = 1
    /\ filter_words = << <<"X">>, <<"G">> >>

----------------------------------------------------------------------------
(* Properties of the weight and of the order of the titles *)

\* fraction a is at least fraction b
FracGeq(a, b) == a[1] * b[2] >= b[1] * a[2]

\* every rank of record y is at least the rank of x at the same place
RanksNotBelow(x, y) ==
    /\ Len(x.ranks) = Len(y.ranks)
    /\ \A i \in DOMAIN x.ranks : x.ranks[i] <= y.ranks[i]

\* C12 as claimed: of two records of the same count, the one with the greater
\* min(ranks) has a rank_weight that is not greater, whatever their rank lists.
RankWeightFallsWithMinRank ==
    \A i, j \in DOMAIN weighed :
        (/\ weighed[i].title_data.count = weighed[j].title_data.count
         /\ Min(Range(weighed[i].title_data.ranks)) <= Min(Range(weighed[j].title_data.ranks)))
        => FracGeq(weighed[i].rank_weight, weighed[j].rank_weight)

\* C12: of two records of the same count whose rank lists have the same
\* length, the one whose ranks are place by place not smaller has a
\* rank_weight that is not greater; for records of one rank, this is the
\* record with the greater min(ranks).
RankWeightFallsWithRanks ==
    \A i, j \in DOMAIN weighed :
        (/\ weighed[i].title_data.count = weighed[j].title_data.count
         /\ RanksNotBelow(weighed[i].title_data, weighed[j].title_data))
        => FracGeq(weighed[i].rank_weight, weighed[j].rank_weight)

\* ranks 2 and 3, ranks 10 and 11 (the same score), and two ranks each
RankWeightWitness ==
    /\ Len(weighed) = 3
    /\ weighed[1].title_data = [ranks |-> <<2>>, count |-> 2]
    /\ weighed[2].title_data = [ranks |-> <<3>>, count |-> 2]
    /\ weighed[3].title_data = [ranks |-> <<11>>, count |-> 2]
    /\ weighed[1].rank_weight = <<9, 1>>
    /\ weighed[2].rank_weight = <<8, 1>>
    /\ weighed[3].rank_weight = <<1, 1>>

\* x may stand before y in a list sorted by (-weight, min(ranks), -count)
InOrder(x, y) ==
    \/ WeightGreater(x, y, RankThreshold)
    \/ /\ ~WeightGreater(y, x, RankThreshold)
       /\ \/ Min(Range(x.ranks)) < Min(Range(y.ranks))
          \/ Min(Range(x.ranks)) = Min(Range(y.ranks)) /\ x.count >= y.count

\* the number of places of sequence q that hold x
Occurrences(q, x) == Cardinality({i \in DOMAIN q : q[i] = x})

\* C13: the titles of every Stat are the titles of the group, by descending
\* total weight, those of equal weight by ascending least rank, and those of
\* equal weight and least rank by descending count.
TitlesOrderedByWeight ==
    pc = "sorted" =>
        \A k \in DOMAIN stats :
            /\ \A i, j \in DOMAIN stats[k].titles :
                  i < j => InOrder(stats[k].titles[i], stats[k].titles[j])
            /\ \A i \in DOMAIN weighed :
                  Occurrences(stats[k].titles, weighed[i].title_data)
                      = Occurrences([n \in DOMAIN weighed |-> weighed[n].title_data],
                                    weighed[i].title_data)

\* records of equal weight given in the order opposite to the sorted one: the
\* least ranks 3 and 2, then the counts 10 and 11
OrderWitnessTies ==
    /\ pc = "sorted"
    /\ Len(weighed) = 3
    /\ weighed[1].title_data = [ranks |-> <<3>>, count |-> 10]
    /\ weighed[2].title_data = [ranks |-> <<2, 4>>, count |-> 10]
    /\ weighed[3].title_data = [ranks |-> <<2, 4>>, count |-> 11]
    /\ stats[1].titles = <<weighed[3].title_data, weighed[2].title_data, weighed[1].title_data>>

----------------------------------------------------------------------------
(* Properties of the modes.  The first run of the day is the run for which *)
(* is_first_crawl_today() holds.                                           *)

FirstRun == is_first_crawl_today(files)

\* the (source id, title) pairs of a dict of dicts
PairsIn(d) == UNION {{<<s, t>> : t \in DOMAIN d[s]} : s \in DOMAIN d}

\* the pairs of d that the configuration matches
AcceptedPairs(d) == {pr \in PairsIn(d) : Accepted(pr[2])}

\* the (source, title) pairs of the views of stats
ViewPairs == {<<ViewAt(pl).source_name, ViewAt(pl).title>> : pl \in Places}

\* C14: in the incremental mode the first run of the day counts every
\* accumulated title, a later run the titles of detect_latest_new_titles only,
\* and every view of either run has is_new = true.
IncrementalTakesNewTitles ==
    (pc = "counted" /\ mode = "incremental") =>
        LET given == IF FirstRun THEN all_results ELSE new_titles
        IN  /\ total_titles = Cardinality(PairsIn(given))
            /\ ViewPairs = AcceptedPairs(given)
            /\ \A pl \in Places : ViewAt(pl).is_new

\* a later run with a new title that is counted and an accumulated title
\* that is matched but not new
IncrementalWitness ==
    /\ pc = "counted"
    /\ mode = "incremental"
    /\ ~FirstRun
    /\ ViewPairs /= {}
    /\ AcceptedPairs(all_results) \ PairsIn(new_titles) /= {}

\* the greatest last_time of title_info
GreatestLastTime == Max({title_info[pr[1]][pr[2]].last_time : pr \in PairsIn(title_info)})

\* the accumulated titles last seen at the greatest last_time
LastSeenPairs ==
    {pr \in PairsIn(title_info) : title_info[pr[1]][pr[2]].last_time = GreatestLastTime}

\* the views of a count in the current mode are those of the titles last seen
\* at the greatest last_time, with first_time, ranks and count of title_info
CurrentViewsOfLastSeen ==
    /\ total_titles = Cardinality(LastSeenPairs)
    /\ ViewPairs = {pr \in LastSeenPairs : Accepted(pr[2])}
    /\ \A pl \in Places :
          \A rec \in {title_info[ViewAt(pl).source_name][ViewAt(pl).title]} :
              /\ ViewAt(pl).first_time = rec.first_time
              /\ ViewAt(pl).ranks = rec.ranks
              /\ ViewAt(pl).count = rec.count

\* the sources with a view in stats
ViewSources == {pr[1] : pr \in ViewPairs}

\* C15 as claimed: in the current mode the titles counted are those whose
\* last_time is the greatest last_time of all titles of all sources, the
\* views take first_time, ranks and count from title_info, and a source that
\* is not in the newest snapshot has no view.
CurrentTakesNewestSnapshot ==
    (pc = "counted" /\ mode = "current" /\ files /= <<>>) =>
        /\ CurrentViewsOfLastSeen
        /\ ViewSources \subseteq DOMAIN files[Len(files)].data

\* the files that hold a title
FilesWithTitles == {i \in DOMAIN files : files[i].data /= EmptyDict}

\* C15: in the current mode the titles counted are those whose last_time is
\* the greatest last_time of all titles of all sources, the views take
\* first_time, ranks and count from title_info, and a source that is not in
\* the newest snapshot that holds a title has no view.
CurrentTakesLastSeen ==
    (pc = "counted" /\ mode = "current" /\ FilesWithTitles /= {}) =>
        /\ CurrentViewsOfLastSeen
        /\ ViewSources \subseteq DOMAIN files[Max(FilesWithTitles)].data

\* a matched title of a source that is in the first snapshot only, and a view
\* of a title seen in both snapshots at different ranks
CurrentWitness ==
    /\ pc = "counted"
    /\ mode = "current"
    /\ Len(files) = 2
    /\ \E pr \in AcceptedPairs(all_results) : pr[1] \notin DOMAIN files[2].data
    /\ \E pl \in Places : ViewAt(pl).count = 2 /\ Len(ViewAt(pl).ranks) = 2

\* C16 as claimed: in the current mode the first run of the day counts every
\* accumulated title and every view has is_new = true.
CurrentFirstRunAllNew ==
    (pc = "counted" /\ mode = "current" /\ FirstRun) =>
        /\ total_titles = Cardinality(PairsIn(all_results))
        /\ ViewPairs = AcceptedPairs(all_results)
        /\ \A pl \in Places : ViewAt(pl).is_new

\* C17 as claimed: in the current mode no view of a run that is not the first
\* of the day has is_new = true.
CurrentLaterRunNeverNew ==
    (pc = "counted" /\ mode = "current" /\ ~FirstRun) =>
        \A pl \in Places : ~ViewAt(pl).is_new

\* C17: in the current mode a view of a run that is not the first of the day
\* has is_new = true exactly when its title is in the new_titles given for
\* its source.
CurrentLaterRunNewIffDetected ==
    (pc = "counted" /\ mode = "current" /\ ~FirstRun) =>
        \A pl \in Places :
            ViewAt(pl).is_new <=>
                <<ViewAt(pl).source_name, ViewAt(pl).title>> \in PairsIn(new_titles)

\* a view of a new title and a view of a title seen before
CurrentNewWitness ==
    /\ pc = "counted"
    /\ mode = "current"
    /\ ~FirstRun
    /\ \E pl \in Places : ViewAt(pl).is_new
    /\ \E pl \in Places : ~ViewAt(pl).is_new

----------------------------------------------------------------------------
(* Properties of the batches *)

LineKinds == {"title", "new_title", "failed_line"}

\* the places of batch b that hold a title line or a failed-id line
LinesOf(b) == {k \in DOMAIN batches[b] : batches[b][k].kind \in LineKinds}

\* the line pieces of the report: the lines the packer has to emit
StatLines ==
    UNION {{NewsLine("title", i, j, report_data.stats[i].titles[j],
                     j < Len(report_data.stats[i].titles))[1] :
               j \in DOMAIN report_data.stats[i].titles} : i \in DOMAIN report_data.stats}

SourceLines ==
    UNION {{NewsLine("new_title", i, j, report_data.new_titles[i].titles[j], FALSE)[1] :
               j \in DOMAIN report_data.new_titles[i].titles} :
              i \in DOMAIN report_data.new_titles}

FailedLines ==
    {FailedLine(i, report_data.failed_ids[i])[1] : i \in DOMAIN report_data.failed_ids}

ReportLines == StatLines \cup SourceLines \cup FailedLines

\* the header of the group or source of a line
HeaderOf(line) ==
    IF line.kind = "title"
    THEN WordHeader(format_type, line.i, Len(report_data.stats), report_data.stats[line.i])[1]
    ELSE SourceHeader(format_type, line.i, report_data.new_titles[line.i])[1]

\* the length of the renderable unit of a line: the header and the line for
\* the first title of a group or source, the line for any other
UnitBytes(line) ==
    IF line.kind \in {"title", "new_title"} /\ line.j = 1
    THEN HeaderOf(line).bytes + line.bytes
    ELSE line.bytes

\* C18 as claimed: every batch, footer included, is at most max_bytes long,
\* except a batch with one renderable unit that is longer than max_bytes by
\* itself.
BatchWithinMaxBytes ==
    pc = "packed" =>
        \A b \in DOMAIN batches :
            \/ ByteLen(batches[b]) <= max_bytes
            \/ /\ Cardinality(LinesOf(b)) = 1
               /\ \A k \in LinesOf(b) : UnitBytes(batches[b][k]) > max_bytes

\* C18: every batch, footer included, is at most max_bytes long, except a
\* batch that holds at most one title line or failed-id line.  A batch that
\* holds two or more is within max_bytes, the newline after the last title of
\* a source included.
BatchOfLinesWithinMaxBytes ==
    pc = "packed" =>
        \A b \in DOMAIN batches :
            ByteLen(batches[b]) <= max_bytes \/ Cardinality(LinesOf(b)) <= 1

\* a batch of one line that is longer than max_bytes though the unit of the
\* line is not, and a batch of two lines of a source, ended by the newline
BatchBytesWitness ==
    /\ pc = "packed"
    /\ \E b \in DOMAIN batches :
          /\ ByteLen(batches[b]) > max_bytes
          /\ \E k \in LinesOf(b) : UnitBytes(batches[b][k]) <= max_bytes
    /\ \E b \in DOMAIN batches :
          /\ Cardinality(LinesOf(b)) = 2
          /\ \E k \in DOMAIN batches[b] : batches[b][k].kind = "newline"
          /\ b < Len(batches)

\* the places <<b, k>> of the batches that hold piece x
PlacesOfPiece(x) ==
    UNION {{<<b, k>> : k \in {n \in DOMAIN batches[b] : batches[b][n] = x}} :
              b \in DOMAIN batches}

\* C19: the first title line of every group and of every source of the new
\* titles is in one batch, once, and the piece right before it in that batch
\* is the header of its group or source, whatever max_bytes is.
HeaderWithFirstTitle ==
    pc = "packed" =>
        \A line \in {x \in StatLines \cup SourceLines : x.j = 1} :
            /\ Cardinality(PlacesOfPiece(line)) = 1
            /\ \A pl \in PlacesOfPiece(line) :
                  /\ pl[2] > 1
                  /\ batches[pl[1]][pl[2] - 1] = HeaderOf(line)

\* the header and the first title of a second group and of a source open a
\* batch each, after the headers stated again
FirstTitleWitness ==
    /\ pc = "packed"
    /\ \E b \in DOMAIN batches :
          /\ b > 1
          /\ batches[b][3].kind = "word_header"
          /\ batches[b][3].i = 2
          /\ batches[b][4].kind = "title"
    /\ \E b \in DOMAIN batches :
          /\ b > 1
          /\ batches[b][3].kind = "source_header"
          /\ batches[b][4].kind = "new_title"

\* C20: a line whose renderable unit is longer than max_bytes is in the
\* batches once, in its full length, in a batch without any other title line
\* or failed-id line: besides the unit the batch holds headers, the footer
\* and the newline that ends a source.
OversizeUnitAlone ==
    pc = "packed" =>
        /\ batches /= <<>>
        /\ \A line \in {x \in ReportLines : UnitBytes(x) > max_bytes} :
              /\ Cardinality(PlacesOfPiece(line)) = 1
              /\ \A pl \in PlacesOfPiece(line) :
                    \A k \in DOMAIN batches[pl[1]] :
                        k /= pl[2] =>
                            batches[pl[1]][k].kind \in
                                {"base_header", "stats_header", "word_header", "new_header",
                                 "source_header", "failed_header", "newline", "footer"}

\* a long second title of a group, a long title of a source and a long failed
\* id, each in a batch of its own between other batches
OversizeWitness ==
    /\ pc = "packed"
    /\ max_bytes = 200
    /\ Len(batches) = 3
    /\ \E k \in LinesOf(2) : batches[2][k].bytes > max_bytes
    /\ LinesOf(1) /= {}
    /\ LinesOf(3) /= {}

\* C21: for a report without stats, new titles and failed ids the packer
\* returns one batch: the base header, the placeholder with the text of the
\* mode (incremental, current, any other as daily) and the footer.
EmptyReportOneBatch ==
    pc = "packed" /\ report_data.stats = <<>> /\ report_data.new_titles = <<>>
                  /\ report_data.failed_ids = <<>> =>
        /\ Len(batches) = 1
        /\ Len(batches[1]) = 3
        /\ batches[1][1] = BaseHeader(format_type, 0)[1]
        /\ batches[1][2].kind = "placeholder"
        /\ batches[1][2].text =
               (IF mode = "incremental" THEN "no new match in incremental mode"
                ELSE IF mode = "current" THEN "no match in current mode"
                ELSE "no match")
        /\ batches[1][3] = BaseFooter(format_type, update_info)[1]

\* the empty report packed in current mode, with the notice of a new version
PlaceholderWitness ==
    /\ pc = "packed"
    /\ report_data = EmptyReport
    /\ mode = "current"
    /\ update_info.given
    /\ batches[1][2].text = "no match in current mode"

\* the titles of the crawl as the file has to give them back:
\* source id -> title -> [ranks, url, mobileUrl]
CrawledTitles ==
    [s \in {crawl.results[i].id : i \in DOMAIN crawl.results} |->
        LET title_data == (CHOOSE x \in Range(crawl.results) : x.id = s).title_data
        IN  [t \in {title_data[i].title : i \in DOMAIN title_data} |->
                LET item == CHOOSE x \in Range(title_data) : x.title = t
                IN  [ranks |-> item.ranks, url |-> item.url, mobileUrl |-> item.mobileUrl]]]

\* C22: the file written by save_titles_to_file, read by parse_file_titles,
\* gives back the source ids, the titles, the ranks and the urls of the
\* crawl.
RoundTrip ==
    pc = "file_parsed" => parsed.titles_by_id = CrawledTitles

----------------------------------------------------------------------------
(* Properties of the merged ranks *)

\* the merge, by its place in the log, in which rank v of title t of source s
\* was first seen
FirstSeen(s, t, v) == Min({k \in Containing(s, t) : v \in Range(files[k].data[s][t].ranks)})

\* C23: after any sequence of merges, merges of a snapshot merged before
\* included, the ranks of every TitleRecord hold no value twice, hold the
\* values seen for the title in the merged snapshots, and hold them in the
\* order in which they were first seen.
RanksInFirstSeenOrder ==
    \A r \in Records :
        \A ranks \in {title_info[r[1]][r[2]].ranks} :
            /\ \A i, j \in DOMAIN ranks : i /= j => ranks[i] /= ranks[j]
            /\ Range(ranks) = UNION {Range(files[k].data[r[1]][r[2]].ranks) :
                                        k \in Containing(r[1], r[2])}
            /\ \A i, j \in DOMAIN ranks :
                  i < j => FirstSeen(r[1], r[2], ranks[i]) < FirstSeen(r[1], r[2], ranks[j])

\* a title seen at rank 2, then at rank 1, then at rank 2 again
RanksOrderWitness ==
    /\ idx = 3
    /\ \E r \in Records :
          /\ title_info[r[1]][r[2]].ranks = <<2, 1>>
          /\ title_info[r[1]][r[2]].count = 3
          /\ files[3].data[r[1]][r[2]].ranks = <<2>>

----------------------------------------------------------------------------
(* Properties of the size tests of the packer *)

\* C24 as claimed: a test closes the open batch only when the prospective
\* size, the current content with the candidate and the footer, is greater
\* than max_bytes; at exactly max_bytes the candidate is appended.
ClosesOnlyAboveMaxBytes ==
    pc = "packed" =>
        \A n \in DOMAIN decisions : decisions[n].closed => decisions[n].prospective > max_bytes

\* C24: a test closes the open batch when the prospective size is max_bytes
\* or more, and only then: a candidate whose prospective size is exactly
\* max_bytes closes the open batch and starts the next one.  The separator of
\* two groups closes nothing: it is left out when it does not fit.
ClosesFromMaxBytesOn ==
    pc = "packed" =>
        \A n \in DOMAIN decisions :
            decisions[n].closed <=>
                /\ decisions[n].prospective >= max_bytes
                /\ decisions[n].open
                /\ ~decisions[n].separator

\* a candidate with a prospective size of exactly max_bytes has closed the
\* open batch, and another has been appended to the batch that followed
ExactFitWitness ==
    /\ pc = "packed"
    /\ Len(batches) = 2
    /\ \E n \in DOMAIN decisions :
          /\ decisions[n].prospective = max_bytes
          /\ decisions[n].closed
          /\ n < Len(decisions)
          /\ ~decisions[n + 1].closed
          /\ ~decisions[n + 1].separator

----------------------------------------------------------------------------
(* Properties of the content of the batches *)

\* the places of batch b before place k that hold piece x
PlacesBefore(b, k, x) == {n \in 1..(k - 1) : batches[b][n] = x}

\* the places of batch b before place k that hold a piece of a kind
KindBefore(b, k, kind) == {n \in 1..(k - 1) : batches[b][n].kind = kind}

\* C25: every batch is self-contained.  A title line of a group has before
\* it, in its batch and in this order, the base header, the stats header and
\* the header of its group; a line of the new titles has the base header,
\* the header of the new titles and the header of its source; a failed-id
\* line has the base header and the header of the failed sources.
BatchSelfContained ==
    pc = "packed" =>
        \A b \in DOMAIN batches : \A k \in LinesOf(b) :
            \A line \in {batches[b][k]} :
                /\ batches[b][1].kind = "base_header"
                /\ line.kind = "title" =>
                      \E n \in KindBefore(b, k, "stats_header") :
                          \E m \in PlacesBefore(b, k, HeaderOf(line)) : n < m
                /\ line.kind = "new_title" =>
                      \E n \in KindBefore(b, k, "new_header") :
                          \E m \in PlacesBefore(b, k, HeaderOf(line)) : n < m
                /\ line.kind = "failed_line" => KindBefore(b, k, "failed_header") /= {}

\* two batches that start in the middle of a source and of the failed ids:
\* after the headers stated again comes the second line of the list
RestatedWitness ==
    /\ pc = "packed"
    /\ \E b \in DOMAIN batches :
          b > 1 /\ Len(batches[b]) >= 4 /\ batches[b][4].kind = "new_title"
                /\ batches[b][4].j = 2
    /\ \E b \in DOMAIN batches :
          b > 1 /\ Len(batches[b]) >= 3 /\ batches[b][3].kind = "failed_line"
                /\ batches[b][3].i = 2

\* the pieces of the batches, read in order
RECURSIVE Concat(_)
Concat(seqs) == IF seqs = <<>> THEN <<>> ELSE Head(seqs) \o Concat(Tail(seqs))

\* the title lines and failed-id lines of the batches, read in order
EmittedLines == SelectSeq(Concat(batches), LAMBDA x : x.kind \in LineKinds)

\* the lines of the titles of a list of groups or sources, in the order of the list
LinesOfList(kind, list) ==
    Concat([i \in DOMAIN list |->
               [j \in DOMAIN list[i].titles |->
                   [kind |-> kind, i |-> i, j |-> j, text |-> list[i].titles[j].bytes]]])

\* the lines of the report in its order: the titles of the groups, the new
\* titles of the sources, the failed ids
LinesOfReport ==
    LinesOfList("title", report_data.stats)
    \o LinesOfList("new_title", report_data.new_titles)
    \o [i \in DOMAIN report_data.failed_ids |->
           [kind |-> "failed_line", i |-> i, j |-> 0, text |-> report_data.failed_ids[i]]]

\* the text of a line piece: what is left of its bytes without the number,
\* the blanks and the line ends around the title or failed id
TextOfLine(x) ==
    IF x.kind = "failed_line" THEN x.bytes - 7
    ELSE x.bytes - 5 - Digits(x.j)
         - (IF x.kind = "title" /\ x.j < Len(report_data.stats[x.i].titles) THEN 1 ELSE 0)

\* C26: the batches read in order hold every title of every group, every new
\* title and every failed id of the report once, in the order of the report,
\* for every max_bytes.
NothingLostOrRepeated ==
    pc = "packed" =>
        \A emitted \in {EmittedLines} :
            [n \in DOMAIN emitted |->
                [kind |-> emitted[n].kind, i |-> emitted[n].i, j |-> emitted[n].j,
                 text |-> TextOfLine(emitted[n])]] = LinesOfReport

\* four lines, each in a batch of its own
SpreadWitness ==
    /\ pc = "packed"
    /\ Len(batches) = 4
    /\ Len(EmittedLines) = 4
    /\ report_data.stats /= <<>>
    /\ report_data.failed_ids /= <<>>

\* C27: for a report with content every batch holds a title line or a
\* failed-id line: no batch is made of headers and the footer only.
EveryBatchHoldsALine ==
    pc = "packed" /\ report_data /= EmptyReport =>
        \A b \in DOMAIN batches : LinesOf(b) /= {}

----------------------------------------------------------------------------
(* Properties of the counts of the Stats *)

RECURSIVE SumOfCounts(_)
SumOfCounts(stat_list) ==
    IF stat_list = <<>> THEN 0 ELSE Head(stat_list).count + SumOfCounts(Tail(stat_list))

\* C28: the count of every Stat is the length of its list of titles, every
\* processed (source id, title) is in at most one place of the Stats, and
\* the counts add up to the number of processed pairs that the groups and
\* filter words accept.
CountsAreTitles ==
    pc = "counted" =>
        /\ \A i \in DOMAIN stats : stats[i].count = Len(stats[i].titles)
        /\ \A pr \in ProcessedPairs : Cardinality(PlacesOf(pr[1], pr[2])) <= 1
        /\ SumOfCounts(stats) = Cardinality(AcceptedPairs(Processed))

\* two groups: a Stat with the titles of two sources, a Stat without title,
\* and a processed title that the filter word rejects
CountsWitness ==
    /\ pc = "counted"
    /\ Len(stats) = 2
    /\ \E i \in DOMAIN stats : stats[i].count = 2
    /\ \E i \in DOMAIN stats : stats[i].titles = <<>>
    /\ \E pr \in ProcessedPairs : HasFilterWord(pr[2]) /\ HoldingGroups(pr[2]) /= {}

----------------------------------------------------------------------------
(* Properties of the detector and the aggregator on the same files *)

\* the (source id, title) pairs of the output of detect_latest_new_titles
DetectedPairs ==
    {r \in Sources \X AggTitles :
        r[1] \in DOMAIN new_titles /\ r[2] \in DOMAIN new_titles[r[1]]}

\* the pairs whose TitleRecord was seen once, in the last snapshot
SeenOnceInLast ==
    {r \in Sources \X AggTitles :
        /\ r[1] \in DOMAIN title_info /\ r[2] \in DOMAIN title_info[r[1]]
        /\ title_info[r[1]][r[2]].count = 1
        /\ title_info[r[1]][r[2]].first_time = files[Len(files)].label}

\* C29: when the day has at least two snapshots, a (source id, title) is in
\* the output of detect_latest_new_titles iff the TitleRecord that
\* read_all_today_titles builds for it from the same files, under the same
\* current_platform_ids, has count = 1 and first_time equal to the label of
\* the last snapshot.
DetectorAgreesWithAggregator ==
    (pc = "idle" /\ Len(files) >= 2) => DetectedPairs = SeenOnceInLast

\* three snapshots read under a platform filter: a detected title of s1 that
\* s2 had earlier, a title of the last snapshot that only the first one had
\* before, and a title of s2 in the last snapshot that the filter drops
AgreementWitness ==
    /\ pc = "idle"
    /\ Len(files) = 3
    /\ platform.given
    /\ "s2" \in DOMAIN files[3].data
    /\ \E r \in DetectedPairs :
          r[1] = "s1" /\ "s2" \in DOMAIN files[1].data /\ r[2] \in DOMAIN files[1].data["s2"]
    /\ \E t \in DOMAIN files[3].data["s1"] :
          /\ <<"s1", t>> \notin DetectedPairs
          /\ title_info["s1"][t].count = 2
          /\ title_info["s1"][t].first_time = files[1].label

----------------------------------------------------------------------------
(* Properties of the silent push *)

\* a channel answered True in the call
OneSucceeded(call) == \E ch \in DOMAIN call.results : call.results[ch]

\* the calls of the day of call i that come after it inside the time range
LaterCalls(i) ==
    {j \in DOMAIN push_calls :
        j > i /\ push_calls[j].day = push_calls[i].day /\ push_calls[j].in_range}

ConfiguredChannels == SelectSeq(ChannelSeq, LAMBDA ch : ch \in push_conf.channels)

====
